---- MODULE Spec2Model ----
(***************************************************************************)
(* Model of the congestion data pipeline of src/src/data.py: the encoding  *)
(* fallback of load_raw_data, clean_data, melt_to_long with its header     *)
(* normalisation (format_time_column) and ordered categorical time_slot,   *)
(* the memoised entry point get_data, the lookups get_unique_values and    *)
(* get_stations_by_line, and filter_data of src/src/ui.py.                 *)
(*                                                                         *)
(* Text is modelled as a sequence of characters, so that strip(), the "in" *)
(* test, the regular expression and string comparison are computed         *)
(* character by character.  An ASCII character is the string holding it; a *)
(* Hangul syllable is the string holding its romanisation ("si" is U+C2DC, *)
(* the hour sign, "bun" is U+BD84, the minute sign; CharCode lists them    *)
(* all with their code points).  A table cell is Str(s), Num(v) or NaN.    *)
(* Num(v) is the number v/10: congestion percentages carry one decimal, so *)
(* numbers are kept in tenths.                                             *)
(***************************************************************************)
EXTENDS Integers, Sequences, FiniteSets, TLC

VARIABLES
    hdr, label, fstage,          \* format_time_column applied to one header
    ta, tb, cmp, ostage,         \* one comparison of two time_slot values
    raw, df, long, exc, stage,   \* clean_data and melt_to_long on one table
    fs,                          \* the files on disk, by path
    cache,                       \* the results st.cache_data holds, by path
    pc, path, existed,           \* per session: position in get_data, its
    tried, outcomes, trace,      \* argument, and what the call did so far
    df_raw, df_clean, ret,
    qdf, qorig, qlast, qfirst,   \* a caller's table and its filter_data calls
    qcalls,
    udf, ucall,                  \* a table and the latest lookup made on it
    pg, pdf, pgot, pfilters,     \* one run of a page: the page, its table, its
    pfiltered, ppc, pshown,      \* filters, and what it evaluated and showed
    pevals, popts, perr,
    waited,                      \* per session: the call waited for another
    failed                       \* the paths a call of get_data failed for

fvars == <<hdr, label, fstage>>
ovars == <<ta, tb, cmp, ostage>>
rvars == <<raw, df, long, exc, stage>>
svars == <<pc, path, existed, tried, outcomes, trace, df_raw, df_clean, ret>>
dvars == <<fs, cache, pc, path, existed, tried, outcomes, trace, df_raw, df_clean, ret>>
qvars == <<qdf, qorig, qlast, qfirst, qcalls>>
uvars == <<udf, ucall>>
pvars == <<pg, pdf, pgot, pfilters, pfiltered, ppc, pshown, pevals, popts, perr>>
cvars == <<waited, failed>>
vars == <<hdr, label, fstage, ta, tb, cmp, ostage, raw, df, long, exc, stage,
          fs, cache, pc, path, existed, tried, outcomes, trace, df_raw, df_clean, ret,
          qdf, qorig, qlast, qfirst, qcalls, udf, ucall,
          pg, pdf, pgot, pfilters, pfiltered, ppc, pshown, pevals, popts, perr,
          waited, failed>>

(***************************************************************************)
(* Characters and strings                                                  *)
(***************************************************************************)
Digits == {"0", "1", "2", "3", "4", "5", "6", "7", "8", "9"}

IsDigit(c) == c \in Digits

DigitVal(c) ==
    CASE c = "0" -> 0 [] c = "1" -> 1 [] c = "2" -> 2 [] c = "3" -> 3
      [] c = "4" -> 4 [] c = "5" -> 5 [] c = "6" -> 6 [] c = "7" -> 7
      [] c = "8" -> 8 [] c = "9" -> 9

DigitChar(n) ==
    CASE n = 0 -> "0" [] n = 1 -> "1" [] n = 2 -> "2" [] n = 3 -> "3"
      [] n = 4 -> "4" [] n = 5 -> "5" [] n = 6 -> "6" [] n = 7 -> "7"
      [] n = 8 -> "8" [] n = 9 -> "9"

\* Unicode code point of a character: Python compares str by code points.
CharCode(c) ==
    CASE c = " " -> 32
      [] c = "." -> 46
      [] c = "/" -> 47
      [] c = "0" -> 48
      [] c = "1" -> 49
      [] c = "2" -> 50
      [] c = "3" -> 51
      [] c = "4" -> 52
      [] c = "5" -> 53
      [] c = "6" -> 54
      [] c = "7" -> 55
      [] c = "8" -> 56
      [] c = "9" -> 57
      [] c = ":" -> 58
      [] c = "A" -> 65
      [] c = "N" -> 78
      [] c = "a" -> 97
      [] c = "n" -> 110
      [] c = "x" -> 120
      [] c = "~" -> 126
      [] c = "gang" -> 44053
      [] c = "gye" -> 44228
      [] c = "gu" -> 44396
      [] c = "nam" -> 45224
      [] c = "nae" -> 45236
      [] c = "dan" -> 45800
      [] c = "bal" -> 48156
      [] c = "beon" -> 48264
      [] c = "bun" -> 48516
      [] c = "sam" -> 49340
      [] c = "sang" -> 49345
      [] c = "seo" -> 49436
      [] c = "seon" -> 49440
      [] c = "si" -> 49884
      [] c = "yeok" -> 50669
      [] c = "oe" -> 50808
      [] c = "yo" -> 50836
      [] c = "ul" -> 50872
      [] c = "il" -> 51068
      [] c = "chul" -> 52636
      [] c = "to" -> 53664
      [] c = "pyeong" -> 54217
      [] c = "ha" -> 54616
      [] c = "hap" -> 54633
      [] c = "ho" -> 54840

\* Python's str < str: the first differing character decides, a proper
\* prefix is smaller.
RECURSIVE StrLess(_, _)
StrLess(a, b) ==
    IF b = <<>> THEN FALSE
    ELSE IF a = <<>> THEN TRUE
    ELSE IF a[1] # b[1] THEN CharCode(a[1]) < CharCode(b[1])
    ELSE StrLess(Tail(a), Tail(b))

\* c in s
Contains(s, c) == \E i \in 1..Len(s) : s[i] = c

\* int(s) of a run of decimal digits
RECURSIVE ParseInt(_)
ParseInt(ds) ==
    IF ds = <<>> THEN 0
    ELSE 10 * ParseInt(SubSeq(ds, 1, Len(ds) - 1)) + DigitVal(ds[Len(ds)])

\* str(n) of a natural number
RECURSIVE IntToStr(_)
IntToStr(n) ==
    IF n < 10 THEN <<DigitChar(n)>>
    ELSE IntToStr(n \div 10) \o <<DigitChar(n % 10)>>

\* FormatD02 gone wrong: no padding.
FormatD02NoPad(n) == IntToStr(n)

\* f"{n:02d}": at least two digits, zero-padded on the left
FormatD02(n) == IF n < 10 THEN <<"0">> \o IntToStr(n) ELSE IntToStr(n)

(***************************************************************************)
(* TIME_ORDER and format_time_column                                       *)
(***************************************************************************)
TIME_ORDER == <<
    <<"0","5",":","3","0">>, <<"0","6",":","0","0">>, <<"0","6",":","3","0">>,
    <<"0","7",":","0","0">>, <<"0","7",":","3","0">>, <<"0","8",":","0","0">>,
    <<"0","8",":","3","0">>, <<"0","9",":","0","0">>, <<"0","9",":","3","0">>,
    <<"1","0",":","0","0">>, <<"1","0",":","3","0">>, <<"1","1",":","0","0">>,
    <<"1","1",":","3","0">>, <<"1","2",":","0","0">>, <<"1","2",":","3","0">>,
    <<"1","3",":","0","0">>, <<"1","3",":","3","0">>, <<"1","4",":","0","0">>,
    <<"1","4",":","3","0">>, <<"1","5",":","0","0">>, <<"1","5",":","3","0">>,
    <<"1","6",":","0","0">>, <<"1","6",":","3","0">>, <<"1","7",":","0","0">>,
    <<"1","7",":","3","0">>, <<"1","8",":","0","0">>, <<"1","8",":","3","0">>,
    <<"1","9",":","0","0">>, <<"1","9",":","3","0">>, <<"2","0",":","0","0">>,
    <<"2","0",":","3","0">>, <<"2","1",":","0","0">>, <<"2","1",":","3","0">>,
    <<"2","2",":","0","0">>, <<"2","2",":","3","0">>, <<"2","3",":","0","0">>,
    <<"2","3",":","3","0">>, <<"0","0",":","0","0">>, <<"0","0",":","3","0">>
>>

L_0530 == <<"0", "5", ":", "3", "0">>

L_0600 == <<"0", "6", ":", "0", "0">>

L_2300 == <<"2", "3", ":", "0", "0">>

L_2330 == <<"2", "3", ":", "3", "0">>

L_0000 == <<"0", "0", ":", "0", "0">>

L_0030 == <<"0", "0", ":", "3", "0">>

\* End of the maximal digit run of s that starts at i (i - 1 when s[i] is no
\* digit): \d+ is greedy and what follows it is no digit.
RECURSIVE DigitRunEnd(_, _)
DigitRunEnd(s, i) ==
    IF i <= Len(s) /\ IsDigit(s[i]) THEN DigitRunEnd(s, i + 1) ELSE i - 1

\* (\d+)si(\d+)bun matched with its first character at position i
MatchAt(s, i) ==
    LET j == DigitRunEnd(s, i)
        l == DigitRunEnd(s, j + 2)
    IN  /\ j >= i
        /\ j + 1 <= Len(s) /\ s[j + 1] = "si"
        /\ l >= j + 2
        /\ l + 1 <= Len(s) /\ s[l + 1] = "bun"

\* re.search(r'(\d+)si(\d+)bun', s): the leftmost match, or no match
ReSearch(s) ==
    LET starts == {i \in 1..Len(s) : MatchAt(s, i)}
    IN  IF starts = {} THEN [found |-> FALSE]
        ELSE LET i == CHOOSE k \in starts : \A m \in starts : k <= m
                 j == DigitRunEnd(s, i)
                 l == DigitRunEnd(s, j + 2)
             IN  [found |-> TRUE,
                  group1 |-> SubSeq(s, i, j),
                  group2 |-> SubSeq(s, j + 2, l)]

format_time_column(time_str) ==
    LET match == ReSearch(time_str)
    IN  IF match.found
        THEN LET hour == ParseInt(match.group1)
                 minute == ParseInt(match.group2)
             IN  FormatD02(hour) \o <<":">> \o FormatD02(minute)
        ELSE time_str

(***************************************************************************)
(* format_time_column applied to one header                                *)
(***************************************************************************)
MaxHeaderLen == 5

HeaderChars == {"5", "0", "3", "si", "bun", "hap"}

RECURSIVE SeqsUpTo(_, _)
SeqsUpTo(S, n) ==
    IF n = 0 THEN {<<>>}
    ELSE LET shorter == SeqsUpTo(S, n - 1)
         IN  shorter \cup {Append(s, c) : s \in {t \in shorter : Len(t) = n - 1}, c \in S}

FormatInputs ==
    SeqsUpTo(HeaderChars, MaxHeaderLen)
    \cup {<<"0","8","si","0","0","bun">>, <<"2","3","si","3","0","bun">>,
          <<"2","5","si","0","0","bun">>, <<"hap","gye">>}

FormatParked == hdr = <<>> /\ label = <<>> /\ fstage = "parked"

FormatInit == hdr \in FormatInputs /\ label = <<>> /\ fstage = "input"

FormatHeader ==
    /\ fstage = "input"
    /\ label' = format_time_column(hdr)
    /\ fstage' = "done"
    /\ UNCHANGED hdr

(***************************************************************************)
(* Cell values and the ordered categorical time_slot                       *)
(***************************************************************************)
Str(s) == [t |-> "str", s |-> s]

Num(v) == [t |-> "num", v |-> v]

NaN == [t |-> "nan"]

IsNaN(x) == x.t = "nan"

\* pd.Categorical(values, categories=TIME_ORDER, ordered=True): a value that
\* is no category becomes missing.
ToCategorical(x) ==
    IF x.t = "str" /\ \E i \in 1..Len(TIME_ORDER) : TIME_ORDER[i] = x.s
    THEN x
    ELSE NaN

\* The code pandas stores for a categorical value: the 0-based position of
\* its category, -1 for a missing value.
CategoryCode(x) ==
    IF IsNaN(x) THEN -1
    ELSE (CHOOSE i \in 1..Len(TIME_ORDER) : TIME_ORDER[i] = x.s) - 1

\* CategoricalLess gone wrong: plain string comparison of the labels.
CategoricalLessAsStrings(a, b) ==
    /\ ~IsNaN(a) /\ ~IsNaN(b)
    /\ StrLess(a.s, b.s)

\* a < b on an ordered categorical: the codes are compared; a comparison
\* with a missing value is False.
CategoricalLess(a, b) ==
    /\ ~IsNaN(a) /\ ~IsNaN(b)
    /\ CategoryCode(a) < CategoryCode(b)

(***************************************************************************)
(* One comparison of two time_slot values                                  *)
(***************************************************************************)
OrderLabels ==
    {TIME_ORDER[i] : i \in 1..Len(TIME_ORDER)}
    \cup {<<"0","5",":","1","5">>, <<"2","5",":","0","0">>, <<"si","bun">>}

OrderInputs == {ToCategorical(Str(l)) : l \in OrderLabels}

OrderParked == ta = NaN /\ tb = NaN /\ cmp = FALSE /\ ostage = "parked"

OrderInit ==
    /\ ta \in OrderInputs
    /\ tb \in OrderInputs
    /\ cmp = FALSE
    /\ ostage = "input"

CompareSlots ==
    /\ ostage = "input"
    /\ cmp' = CategoricalLess(ta, tb)
    /\ ostage' = "done"
    /\ UNCHANGED <<ta, tb>>

(***************************************************************************)
(* Tables.  A wide table is [cols, rows]: cols the headers, rows the rows, *)
(* each row a sequence of cells aligned with cols.  A long table is a      *)
(* sequence of records with the seven columns of melt_to_long's result.    *)
(***************************************************************************)
COL_DAY == <<"yo", "il", "gu", "bun">>

COL_LINE == <<"ho", "seon">>

COL_STATION_ID == <<"yeok", "beon", "ho">>

COL_STATION == <<"chul", "bal", "yeok">>

COL_DIRECTION == <<"sang", "ha", "gu", "bun">>

HasCol(t, c) == \E i \in 1..Len(t.cols) : t.cols[i] = c

ColIndex(t, c) ==
    CHOOSE i \in 1..Len(t.cols) :
        t.cols[i] = c /\ \A k \in 1..(i - 1) : t.cols[k] # c

IsSpace(c) == c = " "

\* str.strip()
RECURSIVE Strip(_)
Strip(s) ==
    IF s = <<>> THEN s
    ELSE IF IsSpace(s[1]) THEN Strip(Tail(s))
    ELSE IF IsSpace(s[Len(s)]) THEN Strip(SubSeq(s, 1, Len(s) - 1))
    ELSE s

\* str(x) of a float kept in tenths: 45.2 -> "45.2", 222.0 -> "222.0"
FloatToStr(v) == IntToStr(v \div 10) \o <<".">> \o <<DigitChar(v % 10)>>

\* astype(str) of one cell
AsTypeStr(x) ==
    CASE x.t = "str" -> x
      [] x.t = "num" -> Str(FloatToStr(x.v))
      [] x.t = "nan" -> Str(<<"n", "a", "n">>)

StripCell(x) == Str(Strip(AsTypeStr(x).s))

\* ParseNumber gone wrong: only whole numbers are numbers.
ParseNumberWholeOnly(s) ==
    IF DigitRunEnd(s, 1) >= 1 /\ DigitRunEnd(s, 1) = Len(s)
    THEN Num(10 * ParseInt(s))
    ELSE NaN

\* The number a text spells: a run of digits, with at most one decimal (the
\* spellings of the cell pool); any other text is no number.
ParseNumber(s) ==
    LET j == DigitRunEnd(s, 1)
    IN  IF j >= 1 /\ j = Len(s) THEN Num(10 * ParseInt(s))
        ELSE IF j >= 1 /\ Len(s) = j + 2 /\ s[j + 1] = "." /\ IsDigit(s[j + 2])
        THEN Num(10 * ParseInt(SubSeq(s, 1, j)) + DigitVal(s[j + 2]))
        ELSE NaN

\* pd.to_numeric(..., errors='coerce') of one cell
ToNumeric(x) ==
    CASE x.t = "num" -> x
      [] x.t = "nan" -> NaN
      [] x.t = "str" -> ParseNumber(x.s)

\* df[c] = df[c].astype(str).str.strip()
StripColumn(t, c) ==
    LET k == ColIndex(t, c)
    IN  [t EXCEPT !.rows =
            [i \in 1..Len(t.rows) |-> [t.rows[i] EXCEPT ![k] = StripCell(t.rows[i][k])]]]

\* NumericColumn gone wrong: a row whose value spells no number is dropped.
NumericColumnDropUnparsed(t, c) ==
    LET k == ColIndex(t, c)
        Parsed(r) == ~IsNaN(ToNumeric(r[k]))
        kept == SelectSeq(t.rows, Parsed)
    IN  [t EXCEPT !.rows =
            [i \in 1..Len(kept) |-> [kept[i] EXCEPT ![k] = ToNumeric(kept[i][k])]]]

\* df[c] = pd.to_numeric(df[c], errors='coerce')
NumericColumn(t, c) ==
    LET k == ColIndex(t, c)
    IN  [t EXCEPT !.rows =
            [i \in 1..Len(t.rows) |-> [t.rows[i] EXCEPT ![k] = ToNumeric(t.rows[i][k])]]]

StripIfPresent(t, c) == IF HasCol(t, c) THEN StripColumn(t, c) ELSE t

clean_data(t) ==
    LET d0 == [t EXCEPT !.cols = [i \in 1..Len(t.cols) |-> Strip(t.cols[i])]]
        d1 == StripIfPresent(d0, COL_DAY)
        d2 == StripIfPresent(d1, COL_LINE)
        d3 == StripIfPresent(d2, COL_STATION)
        d4 == StripIfPresent(d3, COL_DIRECTION)
    IN  IF HasCol(d4, COL_STATION_ID)
        THEN NumericColumn(d4, COL_STATION_ID)
        ELSE d4

(***************************************************************************)
(* melt_to_long                                                            *)
(***************************************************************************)
\* IsTimeCol gone wrong: only headers that match the digit pattern count.
IsTimeColByPattern(col) == ReSearch(col).found

\* '시' in col and '분' in col
IsTimeCol(col) == Contains(col, "si") /\ Contains(col, "bun")

\* time_cols: the headers holding both the hour and the minute sign
TimeCols(t) == SelectSeq(t.cols, IsTimeCol)

id_cols == <<COL_DAY, COL_LINE, COL_STATION_ID, COL_STATION, COL_DIRECTION>>

Cell(t, i, c) == t.rows[i][ColIndex(t, c)]

\* df.melt(id_vars, value_vars, var_name, value_name) with the identifying
\* columns under the names rename() gives them: one row per (time-slot
\* column, input row), column by column and within a column in input order.
Melt(t) ==
    LET tc == TimeCols(t)
        R == Len(t.rows)
    IN  [k \in 1..(Len(tc) * R) |->
            LET c == ((k - 1) \div R) + 1
                i == ((k - 1) % R) + 1
            IN  [day_type |-> Cell(t, i, COL_DAY),
                 line |-> Cell(t, i, COL_LINE),
                 station_id |-> Cell(t, i, COL_STATION_ID),
                 station |-> Cell(t, i, COL_STATION),
                 direction |-> Cell(t, i, COL_DIRECTION),
                 time_slot |-> Str(tc[c]),
                 congestion |-> Cell(t, i, tc[c])]]

FormatSlot(r) == [r EXCEPT !.time_slot = Str(format_time_column(r.time_slot.s))]

CoerceCongestion(r) == [r EXCEPT !.congestion = ToNumeric(r.congestion)]

\* HasCongestion gone wrong: a congestion of 0 counts as missing.
HasCongestionNonZero(r) == ~IsNaN(r.congestion) /\ r.congestion # Num(0)

HasCongestion(r) == ~IsNaN(r.congestion)

\* DropNa gone wrong: no row is dropped.
DropNaKeepAll(rs) == rs

\* dropna(subset=['congestion'])
DropNa(rs) == SelectSeq(rs, HasCongestion)

CategoricalSlot(r) == [r EXCEPT !.time_slot = ToCategorical(r.time_slot)]

\* Order of one text key column in sort_values: by code points, missing last
ObjectBefore(x, y) ==
    IF IsNaN(x) THEN FALSE
    ELSE IF IsNaN(y) THEN TRUE
    ELSE StrLess(x.s, y.s)

\* Order of the categorical key column in sort_values: by category code,
\* missing last (na_position='last')
SlotBefore(x, y) ==
    IF IsNaN(x) THEN FALSE
    ELSE IF IsNaN(y) THEN TRUE
    ELSE CategoryCode(x) < CategoryCode(y)

\* a sorts strictly before b under ['line', 'station', 'direction', 'time_slot']
RowBefore(a, b) ==
    IF a.line # b.line THEN ObjectBefore(a.line, b.line)
    ELSE IF a.station # b.station THEN ObjectBefore(a.station, b.station)
    ELSE IF a.direction # b.direction THEN ObjectBefore(a.direction, b.direction)
    ELSE SlotBefore(a.time_slot, b.time_slot)

\* x put into the sorted sequence rs behind every row that does not sort
\* after it: rows with equal keys keep their order (the sort is stable).
RECURSIVE InsertRow(_, _)
InsertRow(rs, x) ==
    IF rs = <<>> THEN <<x>>
    ELSE IF RowBefore(x, rs[Len(rs)])
    THEN Append(InsertRow(SubSeq(rs, 1, Len(rs) - 1), x), rs[Len(rs)])
    ELSE Append(rs, x)

RECURSIVE SortValues(_)
SortValues(rs) ==
    IF rs = <<>> THEN <<>>
    ELSE InsertRow(SortValues(SubSeq(rs, 1, Len(rs) - 1)), rs[Len(rs)])

\* The result of melt_to_long: the long table, or the KeyError that melt
\* raises when an identifying column is not in the table.
melt_to_long(t) ==
    IF \E k \in 1..Len(id_cols) : ~HasCol(t, id_cols[k])
    THEN [ok |-> FALSE, exc |-> "KeyError", rows |-> <<>>]
    ELSE LET melted == Melt(t)
             formatted == [k \in 1..Len(melted) |-> FormatSlot(melted[k])]
             numeric == [k \in 1..Len(formatted) |-> CoerceCongestion(formatted[k])]
             present == DropNa(numeric)
             ordered == [k \in 1..Len(present) |-> CategoricalSlot(present[k])]
         IN  [ok |-> TRUE, exc |-> "none", rows |-> SortValues(ordered)]

(***************************************************************************)
(* The input tables of the reshape: an identifying-column layout, up to    *)
(* MaxCols further columns with headers from ColPool, up to MaxRows rows   *)
(* from RowPool.  A pool row gives its identifying cells and a list of     *)
(* cells that fills the further columns from the left, starting over when  *)
(* the list ends.                                                          *)
(***************************************************************************)
MaxCols == 2

MaxRows == 2

\* "5si30bun", "05si30bun", "6si00bun", "0si30bun", " 23si30bun ",
\* "5si15bun", "sibun" and the column of totals "hapgye"
ColPool ==
    {<<"5", "si", "3", "0", "bun">>,
     <<"0", "5", "si", "3", "0", "bun">>,
     <<"6", "si", "0", "0", "bun">>,
     <<"0", "si", "3", "0", "bun">>,
     <<" ", "2", "3", "si", "3", "0", "bun", " ">>,
     <<"5", "si", "1", "5", "bun">>,
     <<"si", "bun">>,
     <<"hap", "gye">>}

\* All five identifying columns, or only the three of line, station and
\* direction.
IdLayouts ==
    {id_cols, <<COL_LINE, COL_STATION, COL_DIRECTION>>}

WEEKDAY == <<"pyeong", "il">>

SATURDAY == <<"to", "yo", "il">>

LINE_1 == <<"1", "ho", "seon">>

LINE_2 == <<"2", "ho", "seon">>

GANGNAM == <<"gang", "nam">>

YEOKSAM == <<"yeok", "sam">>

SEOUL == <<"seo", "ul">>

UP == <<"sang", "seon">>

DOWN == <<"ha", "seon">>

NA_TEXT == <<"N", "/", "A">>

RowPool ==
    {[day |-> Str(WEEKDAY), line |-> Str(LINE_2), sid |-> Num(2220),
      station |-> Str(GANGNAM), dir |-> Str(UP),
      cells |-> <<Str(<<"4", "5", ".", "2">>), Str(<<"0">>), NaN>>],
     [day |-> Str(WEEKDAY), line |-> Str(LINE_2), sid |-> Num(2220),
      station |-> Str(GANGNAM), dir |-> Str(DOWN),
      cells |-> <<Num(300), Str(NA_TEXT), Num(0)>>],
     [day |-> Str(SATURDAY), line |-> Str(<<" ">> \o LINE_1), sid |-> Str(<<"x">>),
      station |-> Str(SEOUL), dir |-> Str(UP),
      cells |-> <<Str(NA_TEXT), Num(1305), Str(<<"7">>)>>],
     [day |-> NaN, line |-> Str(LINE_2), sid |-> Str(<<"2", "2", "1">>),
      station |-> Str(YEOKSAM \o <<" ">>), dir |-> Str(UP),
      cells |-> <<Num(452), Str(<<"x">>), Str(<<"1", "0", "0">>)>>]}

IdCell(r, c) ==
    CASE c = COL_DAY -> r.day
      [] c = COL_LINE -> r.line
      [] c = COL_STATION_ID -> r.sid
      [] c = COL_STATION -> r.station
      [] c = COL_DIRECTION -> r.dir

BuildTable(layout, headers, picked) ==
    [cols |-> layout \o headers,
     rows |-> [i \in 1..Len(picked) |->
                 [k \in 1..Len(layout) |-> IdCell(picked[i], layout[k])]
                 \o [k \in 1..Len(headers) |->
                       picked[i].cells[((k - 1) % Len(picked[i].cells)) + 1]]]]

\* read_csv gives distinct headers; headers that differ only in surrounding
\* blanks are left out, so that they stay distinct after clean_data.
DistinctHeaders(hs) ==
    \A i, k \in 1..Len(hs) : i # k => Strip(hs[i]) # Strip(hs[k])

ReshapeInputs ==
    {BuildTable(layout, headers, picked) :
        layout \in IdLayouts,
        headers \in {hs \in SeqsUpTo(ColPool, MaxCols) : DistinctHeaders(hs)},
        picked \in SeqsUpTo(RowPool, MaxRows)}

EmptyTable == [cols |-> <<>>, rows |-> <<>>]

ReshapeParked ==
    /\ raw = EmptyTable /\ df = EmptyTable /\ long = <<>>
    /\ exc = "none" /\ stage = "parked"

ReshapeInit ==
    /\ raw \in ReshapeInputs
    /\ df = EmptyTable
    /\ long = <<>>
    /\ exc = "none"
    /\ stage = "raw"

\* df_clean = clean_data(df_raw)
CleanData ==
    /\ stage = "raw"
    /\ df' = clean_data(raw)
    /\ stage' = "clean"
    /\ UNCHANGED <<raw, long, exc>>

\* df_long = melt_to_long(df_clean), returning the long table
MeltReturns ==
    /\ stage = "clean"
    /\ melt_to_long(df).ok
    /\ long' = melt_to_long(df).rows
    /\ stage' = "long"
    /\ UNCHANGED <<raw, df, exc>>

\* MeltRaises gone wrong: the failure is passed on as the ValueError that
\* load_raw_data raises for an undecodable file.
MeltRaisesAsValueError ==
    /\ stage = "clean"
    /\ ~melt_to_long(df).ok
    /\ exc' = "ValueError"
    /\ stage' = "error"
    /\ UNCHANGED <<raw, df, long>>

\* df_long = melt_to_long(df_clean), raising
MeltRaises ==
    /\ stage = "clean"
    /\ ~melt_to_long(df).ok
    /\ exc' = melt_to_long(df).exc
    /\ stage' = "error"
    /\ UNCHANGED <<raw, df, long>>

(***************************************************************************)
(* Files, load_raw_data and get_data.  A file on disk has a content (the   *)
(* table its text spells) and the set of encodings under which its bytes   *)
(* decode: bytes that decode as euc-kr decode as cp949, and bytes decode   *)
(* as utf-8 exactly when they decode as utf-8-sig.  Files are written and  *)
(* deleted by the environment at any time, also during a call.             *)
(***************************************************************************)
\* encodings gone wrong: UTF-8 first.
encodingsUtf8First == <<"utf-8-sig", "utf-8", "cp949", "euc-kr">>

encodings == <<"cp949", "euc-kr", "utf-8-sig", "utf-8">>

DEFAULT_PATH == "default.csv"

Paths == {DEFAULT_PATH, "other.csv"}

Sessions == {"s1"}

NoFile == [content |-> "none", decodes |-> {}]

FilePool ==
    {[content |-> "A", decodes |-> {"cp949", "euc-kr"}],
     [content |-> "B", decodes |-> {"utf-8-sig", "utf-8"}],
     [content |-> "C", decodes |-> {"cp949", "euc-kr"}],
     [content |-> "X", decodes |-> {}]}

\* The table read_csv parses from a content: A and B have the expected
\* shape, C lacks the day-type and station-id columns.
TableOf(content) ==
    CASE content = "A" ->
            BuildTable(id_cols,
                       <<<<"5", "si", "3", "0", "bun">>, <<"6", "si", "0", "0", "bun">>>>,
                       <<[day |-> Str(WEEKDAY), line |-> Str(LINE_2), sid |-> Num(2220),
                          station |-> Str(GANGNAM), dir |-> Str(UP),
                          cells |-> <<Str(<<"4", "5", ".", "2">>), Str(<<"0">>)>>]>>)
      [] content = "B" ->
            BuildTable(id_cols,
                       <<<<"0", "si", "3", "0", "bun">>, <<"5", "si", "3", "0", "bun">>>>,
                       <<[day |-> Str(SATURDAY), line |-> Str(LINE_1), sid |-> Num(1500),
                          station |-> Str(SEOUL), dir |-> Str(DOWN),
                          cells |-> <<Num(300), Str(NA_TEXT)>>]>>)
      [] content = "C" ->
            BuildTable(<<COL_LINE, COL_STATION, COL_DIRECTION>>,
                       <<<<"5", "si", "3", "0", "bun">>>>,
                       <<[day |-> Str(WEEKDAY), line |-> Str(LINE_2), sid |-> Num(2220),
                          station |-> Str(GANGNAM), dir |-> Str(UP),
                          cells |-> <<Num(100)>>]>>)
      [] OTHER -> EmptyTable

\* file_path.exists()
Exists(p) == fs[p] # NoFile

\* What pd.read_csv(csv_path, encoding=enc) can do now: parse the file,
\* raise UnicodeDecodeError, or raise another error (the file is gone, it
\* cannot be read or parsed).
ReadOutcomes(p, enc) ==
    IF ~Exists(p) THEN {"error"}
    ELSE {IF enc \in fs[p].decodes THEN "ok" ELSE "decode"} \cup {"error"}

\* OnOutcome gone wrong: every exception moves on to the next encoding.
OnOutcomeSkipAll(o) ==
    CASE o = "ok" -> "return"
      [] o = "decode" -> "continue"
      [] o = "error" -> "continue"

\* The try statement of load_raw_data: return df, except UnicodeDecodeError:
\* continue, except Exception: raise
OnOutcome(o) ==
    CASE o = "ok" -> "return"
      [] o = "decode" -> "continue"
      [] o = "error" -> "raise"

NoResult == [kind |-> "none"]

Raised(e) == [kind |-> "error", exc |-> e]

Returned(rows, hit) == [kind |-> "table", rows |-> rows, cached |-> hit]

NoEntry == [stored |-> FALSE, rows |-> <<>>]

Entry(rows) == [stored |-> TRUE, rows |-> rows]

DataParked ==
    /\ fs = [p \in Paths |-> NoFile]
    /\ cache = [p \in Paths |-> NoEntry]
    /\ pc = [s \in Sessions |-> "parked"]
    /\ path = [s \in Sessions |-> DEFAULT_PATH]
    /\ existed = [s \in Sessions |-> "unknown"]
    /\ tried = [s \in Sessions |-> <<>>]
    /\ outcomes = [s \in Sessions |-> <<>>]
    /\ trace = [s \in Sessions |-> <<>>]
    /\ df_raw = [s \in Sessions |-> EmptyTable]
    /\ df_clean = [s \in Sessions |-> EmptyTable]
    /\ ret = [s \in Sessions |-> NoResult]

DataInit ==
    /\ fs \in [Paths -> {NoFile} \cup FilePool]
    /\ cache = [p \in Paths |-> NoEntry]
    /\ pc = [s \in Sessions |-> "idle"]
    /\ path = [s \in Sessions |-> DEFAULT_PATH]
    /\ existed = [s \in Sessions |-> "unknown"]
    /\ tried = [s \in Sessions |-> <<>>]
    /\ outcomes = [s \in Sessions |-> <<>>]
    /\ trace = [s \in Sessions |-> <<>>]
    /\ df_raw = [s \in Sessions |-> EmptyTable]
    /\ df_clean = [s \in Sessions |-> EmptyTable]
    /\ ret = [s \in Sessions |-> NoResult]

ExistsNow(p) == IF Exists(p) THEN "yes" ELSE "no"

\* What a new call starts from
Fresh(s, p) ==
    /\ path' = [path EXCEPT ![s] = p]
    /\ tried' = [tried EXCEPT ![s] = <<>>]
    /\ outcomes' = [outcomes EXCEPT ![s] = <<>>]
    /\ trace' = [trace EXCEPT ![s] = <<>>]
    /\ df_raw' = [df_raw EXCEPT ![s] = EmptyTable]
    /\ df_clean' = [df_clean EXCEPT ![s] = EmptyTable]

\* CallHit gone wrong: the stored result is ignored and the body runs again.
CallHitRerun(s, p) ==
    /\ pc[s] \in {"idle", "done"}
    /\ cache[p].stored
    /\ Fresh(s, p)
    /\ existed' = [existed EXCEPT ![s] = "unknown"]
    /\ ret' = [ret EXCEPT ![s] = NoResult]
    /\ pc' = [pc EXCEPT ![s] = "check"]
    /\ UNCHANGED <<fs, cache>>

\* get_data(p) with a result stored for p: st.cache_data returns it and the
\* body of get_data does not run.
CallHit(s, p) ==
    /\ pc[s] \in {"idle", "done"}
    /\ cache[p].stored
    /\ Fresh(s, p)
    /\ existed' = [existed EXCEPT ![s] = ExistsNow(p)]
    /\ ret' = [ret EXCEPT ![s] = Returned(cache[p].rows, TRUE)]
    /\ pc' = [pc EXCEPT ![s] = "done"]
    /\ UNCHANGED <<fs, cache>>

\* CallMiss gone wrong: the failure of the call before, for the same path,
\* is given again and the body does not run.
CallMissReplay(s, p) ==
    /\ pc[s] \in {"idle", "done"}
    /\ ~cache[p].stored
    /\ Fresh(s, p)
    /\ existed' = [existed EXCEPT ![s] = "unknown"]
    /\ IF ret[s].kind = "error" /\ path[s] = p
       THEN /\ pc' = [pc EXCEPT ![s] = "done"]
            /\ UNCHANGED ret
       ELSE /\ pc' = [pc EXCEPT ![s] = "check"]
            /\ ret' = [ret EXCEPT ![s] = NoResult]
    /\ UNCHANGED <<fs, cache>>

\* get_data(p) with nothing stored for p: the body of get_data runs.
CallMiss(s, p) ==
    /\ pc[s] \in {"idle", "done"}
    /\ ~cache[p].stored
    /\ Fresh(s, p)
    /\ existed' = [existed EXCEPT ![s] = "unknown"]
    /\ ret' = [ret EXCEPT ![s] = NoResult]
    /\ pc' = [pc EXCEPT ![s] = "check"]
    /\ UNCHANGED <<fs, cache>>

\* FileMissing gone wrong: the existence check is left out.
FileMissingNever(p) == FALSE

\* not file_path.exists()
FileMissing(p) == ~Exists(p)

\* if not file_path.exists(): ... raise FileNotFoundError
CheckExists(s) ==
    /\ pc[s] = "check"
    /\ existed' = [existed EXCEPT ![s] = ExistsNow(path[s])]
    /\ IF FileMissing(path[s])
       THEN /\ ret' = [ret EXCEPT ![s] = Raised("FileNotFoundError")]
            /\ pc' = [pc EXCEPT ![s] = "done"]
       ELSE /\ pc' = [pc EXCEPT ![s] = "load"]
            /\ UNCHANGED ret
    /\ UNCHANGED <<fs, cache, path, tried, outcomes, trace, df_raw, df_clean>>

\* One pass of the loop of load_raw_data: read_csv with the next encoding;
\* after the last encoding failed to decode, the ValueError.
TryEncoding(s) ==
    /\ pc[s] = "load"
    /\ LET enc == encodings[Len(tried[s]) + 1]
       IN  \E o \in ReadOutcomes(path[s], enc) :
             /\ tried' = [tried EXCEPT ![s] = Append(@, enc)]
             /\ outcomes' = [outcomes EXCEPT ![s] = Append(@, o)]
             /\ trace' = [trace EXCEPT ![s] =
                             IF tried[s] = <<>> THEN Append(@, "load_raw_data") ELSE @]
             /\ CASE OnOutcome(o) = "return" ->
                        /\ df_raw' = [df_raw EXCEPT ![s] = TableOf(fs[path[s]].content)]
                        /\ pc' = [pc EXCEPT ![s] = "clean"]
                        /\ UNCHANGED ret
                  [] OnOutcome(o) = "continue" ->
                        /\ IF Len(tried[s]) + 1 = Len(encodings)
                           THEN /\ ret' = [ret EXCEPT ![s] = Raised("ValueError")]
                                /\ pc' = [pc EXCEPT ![s] = "done"]
                           ELSE UNCHANGED <<ret, pc>>
                        /\ UNCHANGED df_raw
                  [] OnOutcome(o) = "raise" ->
                        /\ ret' = [ret EXCEPT ![s] = Raised("ReadError")]
                        /\ pc' = [pc EXCEPT ![s] = "done"]
                        /\ UNCHANGED df_raw
    /\ UNCHANGED <<fs, cache, path, existed, df_clean>>

\* df_clean = clean_data(df_raw)
Clean(s) ==
    /\ pc[s] = "clean"
    /\ df_clean' = [df_clean EXCEPT ![s] = clean_data(df_raw[s])]
    /\ trace' = [trace EXCEPT ![s] = Append(@, "clean_data")]
    /\ pc' = [pc EXCEPT ![s] = "melt"]
    /\ UNCHANGED <<fs, cache, path, existed, tried, outcomes, df_raw, ret>>

\* df_long = melt_to_long(df_clean); return df_long
Reshape(s) ==
    /\ pc[s] = "melt"
    /\ trace' = [trace EXCEPT ![s] = Append(@, "melt_to_long")]
    /\ LET r == melt_to_long(df_clean[s])
       IN  IF r.ok
           THEN /\ ret' = [ret EXCEPT ![s] = Returned(r.rows, FALSE)]
                /\ pc' = [pc EXCEPT ![s] = "store"]
           ELSE /\ ret' = [ret EXCEPT ![s] = Raised(r.exc)]
                /\ pc' = [pc EXCEPT ![s] = "done"]
    /\ UNCHANGED <<fs, cache, path, existed, tried, outcomes, df_raw, df_clean>>

\* st.cache_data stores the value get_data returned under its argument.
Store(s) ==
    /\ pc[s] = "store"
    /\ cache' = [cache EXCEPT ![path[s]] = Entry(ret[s].rows)]
    /\ pc' = [pc EXCEPT ![s] = "done"]
    /\ UNCHANGED <<fs, path, existed, tried, outcomes, trace, df_raw, df_clean, ret>>

\* The environment writes a file.
WriteFile(p, f) ==
    /\ fs[p] # f
    /\ fs' = [fs EXCEPT ![p] = f]
    /\ UNCHANGED <<cache, svars>>

\* The environment deletes a file.
DeleteFile(p) ==
    /\ Exists(p)
    /\ fs' = [fs EXCEPT ![p] = NoFile]
    /\ UNCHANGED <<cache, svars>>

\* The record of the paths a call has failed for so far: a call that ends
\* with an exception in this step adds its path.
NoteFailures ==
    failed' = failed \cup {path'[s] : s \in {x \in Sessions :
                                pc[x] # "done" /\ pc'[x] = "done" /\ ret'[x].kind = "error"}}

(***************************************************************************)
(* filter_data of src/src/ui.py.  A long table is the sequence of its      *)
(* rows; a filter configuration is a dictionary with the six keys          *)
(* day_type, lines, stations, directions, time_range and congestion_range, *)
(* each of them absent, None or a value: a text, a list of texts or a pair *)
(* (two labels for time_range, two numbers in tenths for                   *)
(* congestion_range).                                                      *)
(***************************************************************************)
Absent == [t |-> "absent"]

None == [t |-> "none"]

List(items) == [t |-> "list", items |-> items]

Pair(a, b) == [t |-> "tuple", a |-> a, b |-> b]

\* filters.get(key): None for a key that is not in the dictionary
Get(filters, key) == IF filters[key] = Absent THEN None ELSE filters[key]

\* Truthy gone wrong: only None counts as false, an empty text or list is
\* taken for a constraint.
TruthyUnlessNone(x) == x # None

\* The truth value Python's if gives a value: None, the empty text and the
\* empty list are false, a pair is true whatever it holds.
Truthy(x) ==
    CASE x.t = "none" -> FALSE
      [] x.t = "str" -> x.s # <<>>
      [] x.t = "list" -> x.items # <<>>
      [] x.t = "tuple" -> TRUE

\* series == value on a text column: False for a missing cell
CellEquals(x, v) == x = v

\* series.isin(values)
IsIn(x, values) == \E i \in 1..Len(values.items) : values.items[i] = x

\* SlotInRange gone wrong: the labels are compared as strings.
SlotInRangeAsStrings(x, start_time, end_time) ==
    /\ ~IsNaN(x)
    /\ ~StrLess(x.s, start_time)
    /\ ~StrLess(end_time, x.s)

\* (time_slot >= start_time) & (time_slot <= end_time) on the ordered
\* categorical column with two of its categories: the codes are compared,
\* and a comparison with a missing value is False.
SlotInRange(x, start_time, end_time) ==
    /\ ~IsNaN(x)
    /\ CategoryCode(x) >= CategoryCode(Str(start_time))
    /\ CategoryCode(x) <= CategoryCode(Str(end_time))

\* CongestionInRange gone wrong: the bounds themselves are left out.
CongestionInRangeExclusive(x, min_cong, max_cong) ==
    /\ ~IsNaN(x)
    /\ x.v > min_cong
    /\ x.v < max_cong

\* (congestion >= min_cong) & (congestion <= max_cong)
CongestionInRange(x, min_cong, max_cong) ==
    /\ ~IsNaN(x)
    /\ x.v >= min_cong
    /\ x.v <= max_cong

\* Copy gone wrong: the rows come out in reverse order.
CopyReversed(d) == [i \in 1..Len(d) |-> d[Len(d) + 1 - i]]

\* df.copy(): a new table with the same rows
Copy(d) == d

\* The table filter_data returns: the six tests one after the other, each
\* on the rows the test before left and only when its constraint is truthy.
filter_data(d, filters) ==
    LET ByDay(r) == CellEquals(r.day_type, filters["day_type"])
        ByLine(r) == IsIn(r.line, filters["lines"])
        ByStation(r) == IsIn(r.station, filters["stations"])
        ByDirection(r) == IsIn(r.direction, filters["directions"])
        ByTime(r) == SlotInRange(r.time_slot, filters["time_range"].a,
                                 filters["time_range"].b)
        ByCongestion(r) == CongestionInRange(r.congestion,
                                             filters["congestion_range"].a,
                                             filters["congestion_range"].b)
        f0 == Copy(d)
        f1 == IF Truthy(Get(filters, "day_type")) THEN SelectSeq(f0, ByDay) ELSE f0
        f2 == IF Truthy(Get(filters, "lines")) THEN SelectSeq(f1, ByLine) ELSE f1
        f3 == IF Truthy(Get(filters, "stations")) THEN SelectSeq(f2, ByStation) ELSE f2
        f4 == IF Truthy(Get(filters, "directions")) THEN SelectSeq(f3, ByDirection) ELSE f3
        f5 == IF Truthy(Get(filters, "time_range")) THEN SelectSeq(f4, ByTime) ELSE f4
        f6 == IF Truthy(Get(filters, "congestion_range"))
              THEN SelectSeq(f5, ByCongestion) ELSE f5
    IN  f6

\* DfAfterFilter gone wrong: the rows are dropped from the caller's table.
DfAfterFilterInPlace(d, filters) == filter_data(d, filters)

\* The caller's table after filter_data(df, filters): the function works on
\* df_filtered, which starts as a copy and is bound anew at every test, and
\* never writes to df.
DfAfterFilter(d, filters) == d

(***************************************************************************)
(* The long tables and configurations filter_data is called with           *)
(***************************************************************************)
MaxLongRows == 2

MaxCalls == 3

NAN_TEXT == <<"n", "a", "n">>

LongRow(day, line, sid, station, dir, slot, value) ==
    [day_type |-> day, line |-> line, station_id |-> sid, station |-> station,
     direction |-> dir, time_slot |-> slot, congestion |-> Num(value)]

\* Rows as melt_to_long gives them: congestion present, time_slot a label
\* of TIME_ORDER or missing, text columns as clean_data leaves them.
LongRowPool ==
    {LongRow(Str(WEEKDAY), Str(LINE_2), Num(2220), Str(GANGNAM), Str(UP), Str(L_0530), 452),
     LongRow(Str(WEEKDAY), Str(LINE_2), Num(2220), Str(GANGNAM), Str(DOWN), Str(L_2330), 0),
     LongRow(Str(SATURDAY), Str(LINE_1), Num(1500), Str(SEOUL), Str(UP), Str(L_0000), 2000),
     LongRow(Str(NAN_TEXT), Str(LINE_2), NaN, Str(YEOKSAM), Str(UP), NaN, 2001),
     LongRow(Str(WEEKDAY), Str(LINE_1), Num(1500), Str(SEOUL), Str(UP), Str(L_2300), 452)}

\* The tables: up to MaxLongRows rows in the order sort_values gives
LongTables == {SortValues(rs) : rs \in SeqsUpTo(LongRowPool, MaxLongRows)}

EmptyFilters ==
    [k \in {"day_type", "lines", "stations", "directions", "time_range",
            "congestion_range"} |-> Absent]

DayTypeValues == {None, Str(<<>>), Str(WEEKDAY)}

LinesValues == {List(<<>>), List(<<Str(LINE_1)>>), List(<<Str(LINE_1), Str(LINE_2)>>)}

StationsValues == {List(<<>>), List(<<Str(GANGNAM), Str(SEOUL)>>)}

DirectionsValues == {List(<<>>), List(<<Str(UP)>>)}

TimeRangeValues ==
    {None, Pair(L_2300, L_0030), Pair(L_0530, L_0530), Pair(L_0600, L_0530)}

CongestionRangeValues ==
    {None, Pair(0, 0), Pair(0, 2000), Pair(452, 452), Pair(2000, 0)}

\* Configurations with one key set
OneKeyFilters ==
    {[EmptyFilters EXCEPT !["day_type"] = v] : v \in DayTypeValues}
    \cup {[EmptyFilters EXCEPT !["lines"] = v] : v \in LinesValues}
    \cup {[EmptyFilters EXCEPT !["stations"] = v] : v \in StationsValues}
    \cup {[EmptyFilters EXCEPT !["directions"] = v] : v \in DirectionsValues}
    \cup {[EmptyFilters EXCEPT !["time_range"] = v] : v \in TimeRangeValues}
    \cup {[EmptyFilters EXCEPT !["congestion_range"] = v] : v \in CongestionRangeValues}

\* Configurations with several keys set
ManyKeyFilters ==
    {[day_type |-> d, lines |-> l.lines, stations |-> List(<<>>),
      directions |-> l.directions, time_range |-> t, congestion_range |-> c] :
        d \in {Absent, Str(WEEKDAY)},
        l \in {[lines |-> Absent, directions |-> Absent],
               [lines |-> List(<<Str(LINE_1), Str(LINE_2)>>),
                directions |-> List(<<Str(UP)>>)]},
        t \in {Absent, Pair(L_2300, L_0030)},
        c \in {Absent, Pair(0, 2000)}}

FilterConfigs == {EmptyFilters} \cup OneKeyFilters \cup ManyKeyFilters

NoCall == [made |-> FALSE, filters |-> EmptyFilters, rows |-> <<>>]

Call(filters, rows) == [made |-> TRUE, filters |-> filters, rows |-> rows]

FilterParked ==
    /\ qdf = <<>> /\ qorig = <<>> /\ qlast = NoCall /\ qfirst = NoCall
    /\ qcalls = 0

\* qdf is the table the caller holds, qorig its rows before the first call,
\* qlast the latest call of filter_data, qfirst the first one and qcalls
\* the number of calls made.
FilterInit ==
    /\ qdf \in LongTables
    /\ qorig = qdf
    /\ qlast = NoCall
    /\ qfirst = NoCall
    /\ qcalls = 0

\* df_filtered = filter_data(df, filters)
FilterData ==
    \E filters \in FilterConfigs :
        /\ qcalls < MaxCalls
        /\ qcalls' = qcalls + 1
        /\ qlast' = Call(filters, filter_data(qdf, filters))
        /\ qfirst' = IF qfirst.made THEN qfirst ELSE qlast'
        /\ qdf' = DfAfterFilter(qdf, filters)
        /\ UNCHANGED qorig

(***************************************************************************)
(* get_unique_values and get_stations_by_line of src/src/data.py           *)
(***************************************************************************)
\* The columns of a long table
LongColumns ==
    {"day_type", "line", "station_id", "station", "direction", "time_slot",
     "congestion"}

\* df[column] as the sequence of its cells
Column(d, column) == [i \in 1..Len(d) |-> d[i][column]]

IsPresent(x) == ~IsNaN(x)

\* series.dropna()
DropMissing(cells) == SelectSeq(cells, IsPresent)

\* series.unique(): the distinct values in the order of their first
\* appearance
RECURSIVE Unique(_)
Unique(cells) ==
    IF cells = <<>> THEN <<>>
    ELSE LET before == Unique(SubSeq(cells, 1, Len(cells) - 1))
             x == cells[Len(cells)]
         IN  IF \E i \in 1..Len(before) : before[i] = x THEN before
             ELSE Append(before, x)

\* '호선' in x
ContainsHoseon(x) ==
    \E i \in 1..(Len(x) - 1) : x[i] = "ho" /\ x[i + 1] = "seon"

\* x.replace('호선', '')
RECURSIVE RemoveHoseon(_)
RemoveHoseon(x) ==
    IF Len(x) < 2 THEN x
    ELSE IF x[1] = "ho" /\ x[2] = "seon" THEN RemoveHoseon(SubSeq(x, 3, Len(x)))
    ELSE <<x[1]>> \o RemoveHoseon(Tail(x))

\* int(s) on a text of digits, blanks and other characters: the number
\* spelled by the digits between surrounding blanks, ValueError for any
\* other text, the empty one included.
PyInt(s) ==
    LET t == Strip(s)
    IN  IF t # <<>> /\ \A i \in 1..Len(t) : IsDigit(t[i])
        THEN [ok |-> TRUE, v |-> ParseInt(t)]
        ELSE [ok |-> FALSE, v |-> 0]

\* lambda x: int(x.replace('호선', '')) if '호선' in x else 999
LineKey(x) ==
    IF ContainsHoseon(x.s) THEN PyInt(RemoveHoseon(x.s))
    ELSE [ok |-> TRUE, v |-> 999]

\* x put into the sequence vs sorted by key, behind every value whose key
\* is not greater (sorted() is stable)
RECURSIVE InsertByKey(_, _)
InsertByKey(vs, x) ==
    IF vs = <<>> THEN <<x>>
    ELSE IF LineKey(x).v < LineKey(vs[Len(vs)]).v
    THEN Append(InsertByKey(SubSeq(vs, 1, Len(vs) - 1), x), vs[Len(vs)])
    ELSE Append(vs, x)

RECURSIVE SortedByKey(_)
SortedByKey(vs) ==
    IF vs = <<>> THEN <<>>
    ELSE InsertByKey(SortedByKey(SubSeq(vs, 1, Len(vs) - 1)), vs[Len(vs)])

\* x < y between two values of one column: numbers by value, texts (the
\* labels of the categorical column too) by code points
ValueLess(x, y) ==
    IF x.t = "num" THEN x.v < y.v ELSE StrLess(x.s, y.s)

RECURSIVE InsertValue(_, _)
InsertValue(vs, x) ==
    IF vs = <<>> THEN <<x>>
    ELSE IF ValueLess(x, vs[Len(vs)])
    THEN Append(InsertValue(SubSeq(vs, 1, Len(vs) - 1), x), vs[Len(vs)])
    ELSE Append(vs, x)

\* sorted(values)
RECURSIVE Sorted(_)
Sorted(vs) ==
    IF vs = <<>> THEN <<>>
    ELSE InsertValue(Sorted(SubSeq(vs, 1, Len(vs) - 1)), vs[Len(vs)])

ListResult(vals) == [ok |-> TRUE, exc |-> "none", vals |-> vals]

ErrorResult(e) == [ok |-> FALSE, exc |-> e, vals |-> <<>>]

\* get_unique_values(df, column): the list it returns, or the ValueError
\* that int() raises while sorted() computes the keys.
get_unique_values(d, column) ==
    IF column \notin LongColumns THEN ListResult(<<>>)
    ELSE LET unique_vals == Unique(DropMissing(Column(d, column)))
         IN  IF column = "line"
             THEN IF \E i \in 1..Len(unique_vals) : ~LineKey(unique_vals[i]).ok
                  THEN ErrorResult("ValueError")
                  ELSE ListResult(SortedByKey(unique_vals))
             ELSE ListResult(Sorted(unique_vals))

\* if line: the empty text counts as no line, like None
LineGiven(line) == Truthy(line)

\* get_stations_by_line(df, line)
get_stations_by_line(d, line) ==
    LET OfLine(r) == CellEquals(r.line, line)
        df_filtered == IF LineGiven(line) THEN SelectSeq(d, OfLine) ELSE d
        stations == Unique(DropMissing(Column(df_filtered, "station")))
    IN  ListResult(Sorted(stations))

(***************************************************************************)
(* The tables and arguments of the two functions                           *)
(***************************************************************************)
MaxLookupRows == 3

LINE_10 == <<"1", "0", "ho", "seon">>

\* "9호선2~3단계", the second and third stage of line 9
LINE_9_STAGES == <<"9", "ho", "seon", "2", "~", "3", "dan", "gye">>

\* "강남선", a label without a line number
LINE_GANGNAM == <<"gang", "nam", "seon">>

LookupRowPool ==
    {LongRow(Str(WEEKDAY), Str(LINE_10), Num(10010), Str(SEOUL), Str(UP), Str(L_0530), 452),
     LongRow(Str(WEEKDAY), Str(LINE_2), Num(2220), Str(GANGNAM), Str(UP), Str(L_0030), 0),
     LongRow(Str(SATURDAY), Str(LINE_2), Num(2210), Str(YEOKSAM), Str(DOWN), Str(L_0600), 2000),
     LongRow(Str(SATURDAY), Str(LINE_1), Num(1500), Str(SEOUL), Str(DOWN), NaN, 1305),
     LongRow(Str(WEEKDAY), Str(LINE_GANGNAM), NaN, Str(GANGNAM), Str(UP), Str(L_2330), 300),
     LongRow(Str(NAN_TEXT), Str(NAN_TEXT), Num(2220), Str(NAN_TEXT), Str(UP), Str(L_0530), 452),
     LongRow(Str(WEEKDAY), Str(LINE_9_STAGES), Num(9010), Str(YEOKSAM), Str(UP), Str(L_0530), 71),
     LongRow(Str(WEEKDAY), Str(<<>>), Num(2220), Str(GANGNAM), Str(DOWN), Str(L_0600), 452)}

LookupTables == {SortValues(rs) : rs \in SeqsUpTo(LookupRowPool, MaxLookupRows)}

\* The column names asked for: those of the long table and one it lacks
ColumnArgs == LongColumns \cup {"total"}

LineArgs ==
    {None, Str(<<>>), Str(LINE_1), Str(LINE_2), Str(LINE_10), Str(LINE_GANGNAM)}

NoLookup == [op |-> "none", arg |-> None, res |-> ListResult(<<>>)]

LookupParked == udf = <<>> /\ ucall = NoLookup

\* udf is the table, ucall the latest call made on it.
LookupInit ==
    /\ udf \in LookupTables
    /\ ucall = NoLookup

\* get_unique_values(df, column)
UniqueValues ==
    \E column \in ColumnArgs :
        /\ ucall' = [op |-> "get_unique_values", arg |-> Str(<<column>>),
                     res |-> get_unique_values(udf, column)]
        /\ UNCHANGED udf

\* get_stations_by_line(df, line)
StationsByLine ==
    \E line \in LineArgs :
        /\ ucall' = [op |-> "get_stations_by_line", arg |-> line,
                     res |-> get_stations_by_line(udf, line)]
        /\ UNCHANGED udf

(***************************************************************************)
(* render_filters of src/src/ui.py and one run of a page: src/app.py and   *)
(* the pages 01 to 06 of src/pages.  A page gets its table from get_data,  *)
(* pages other than 06 then render the sidebar filters, filter the table,  *)
(* show the data information and, unless the result is empty, compute      *)
(* their aggregates and offer their selectors.                             *)
(***************************************************************************)
Pages == {"app", "01", "02", "03", "04", "05", "06"}

\* The pages that call render_filters and filter_data
FilterPages == Pages \ {"06"}

\* lines[:3] if len(lines) >= 3 else lines
DefaultLines(lines) == IF Len(lines) >= 3 THEN SubSeq(lines, 1, 3) ELSE lines

\* available_stations after the loop over the chosen lines
RECURSIVE StationsOfLines(_, _)
StationsOfLines(d, lines) ==
    IF lines = <<>> THEN <<>>
    ELSE StationsOfLines(d, SubSeq(lines, 1, Len(lines) - 1))
            \o get_stations_by_line(d, lines[Len(lines)]).vals

\* sorted(set(available_stations))
AvailableStations(d, lines) == Sorted(Unique(StationsOfLines(d, lines)))

\* The sliders give whole percentages; the model keeps numbers in tenths.
Percent(n) == n * 10

\* value=(0, len(TIME_ORDER) - 1) of the time slider
DefaultTimeRange == <<0, Len(TIME_ORDER) - 1>>

\* DefaultCongestionRange gone wrong: the slider starts out at (0, 300).
DefaultCongestionRangeWide == <<0, 300>>

\* value=(0, 200) of the congestion slider
DefaultCongestionRange == <<0, 200>>

\* What the widgets hold when nobody touched them: the first day type, the
\* first three lines, no station, every direction, the whole of both sliders
DefaultSelection(d) ==
    [day |-> 1,
     lines |-> DefaultLines(get_unique_values(d, "line").vals),
     stations |-> <<>>,
     directions |-> get_unique_values(d, "direction").vals,
     time |-> DefaultTimeRange,
     congestion |-> DefaultCongestionRange]

\* The dictionary render_filters(df) returns for the widget state sel, or
\* the ValueError of get_unique_values(df, 'line').
render_filters(d, sel) ==
    LET day_types == get_unique_values(d, "day_type")
        lines == get_unique_values(d, "line")
        directions == get_unique_values(d, "direction")
        f_lines == IF lines.vals # <<>> THEN List(sel.lines) ELSE List(<<>>)
        available_stations == AvailableStations(d, f_lines.items)
        f_stations == IF Truthy(f_lines) /\ available_stations # <<>>
                      THEN List(sel.stations) ELSE List(<<>>)
    IN  IF ~lines.ok
        THEN [ok |-> FALSE, exc |-> lines.exc, filters |-> EmptyFilters]
        ELSE [ok |-> TRUE, exc |-> "none",
              filters |->
                [day_type |-> IF day_types.vals # <<>>
                              THEN day_types.vals[sel.day] ELSE Absent,
                 lines |-> f_lines,
                 stations |-> f_stations,
                 directions |-> IF directions.vals # <<>>
                                THEN List(sel.directions) ELSE List(<<>>),
                 time_range |-> Pair(TIME_ORDER[sel.time[1] + 1],
                                     TIME_ORDER[sel.time[2] + 1]),
                 congestion_range |-> Pair(Percent(sel.congestion[1]),
                                           Percent(sel.congestion[2]))]]

\* IsEmptyResult gone wrong: the page never takes its result for empty.
IsEmptyResultNever(rows) == FALSE

\* len(df_filtered) == 0
IsEmptyResult(rows) == Len(rows) = 0

\* The message of st.warning for an empty result
NO_DATA == "no_data_warning"

\* What show_data_info(df_filtered) evaluates: the nunique calls only for a
\* table with rows
DataInfoAggregates(rows) == IF Len(rows) > 0 THEN {"nunique"} ELSE {}

\* The aggregates a page evaluates on df_filtered right behind its test for
\* an empty result
Aggregates(page) ==
    CASE page = "app" -> {"mean", "max", "nunique", "idxmax", "groupby"}
      [] page = "01" -> {"mean", "max", "idxmax", "groupby"}
      [] page = "02" -> {"unique"}
      [] page = "03" -> {"groupby"}
      [] page = "04" -> {"groupby"}
      [] page = "05" -> {"unique"}

\* Series.idxmax() raises ValueError on a series without values.
RaisesOnEmpty == {"idxmax"}

\* str(t) of a time_slot value
SlotText(x) == IF IsNaN(x) THEN Str(NAN_TEXT) ELSE x

\* [str(t) for t in TIME_ORDER if t in df_filtered['time_slot'].values]
OptionsInTimeOrder(rows) ==
    LET Present(l) == \E i \in 1..Len(rows) : rows[i].time_slot = Str(l)
        labels == SelectSeq(TIME_ORDER, Present)
    IN  [i \in 1..Len(labels) |-> Str(labels[i])]

\* sorted([str(t) for t in rows['time_slot'].unique()])
OptionsSorted(rows) ==
    LET slots == Unique(Column(rows, "time_slot"))
    IN  Sorted([i \in 1..Len(slots) |-> SlotText(slots[i])])

\* sorted(df_filtered['line'].unique(), key=...)
AvailableLines(rows) == SortedByKey(Unique(Column(rows, "line")))

\* The (station, line) groups of groupby(['station', 'line']).size()
StationOptions(rows) ==
    {<<rows[i].station, rows[i].line>> : i \in 1..Len(rows)}

OfLine(rows, line) ==
    LET Same(r) == r.line = line IN SelectSeq(rows, Same)

OfStations(rows, chosen, direction) ==
    LET Chosen(r) ==
            /\ <<r.station, r.line>> \in chosen
            /\ direction = None \/ r.direction = direction
    IN  SelectSeq(rows, Chosen)

Outcome(shown, opts) == [shown |-> shown, opts |-> opts]

\* What the body of a page can show for the rows of df_filtered, by what
\* the user picks in the selectors of the page: the message of an early
\* return and the time-slot options it offers.
BodyOutcomes(page, rows) ==
    CASE page \in {"app", "03"} -> {Outcome("none", <<>>)}
      [] page = "01" -> {Outcome("none", OptionsInTimeOrder(rows))}
      [] page = "02" ->
            IF AvailableLines(rows) = <<>> THEN {Outcome("no_lines", <<>>)}
            ELSE {Outcome("none", OptionsSorted(OfLine(rows, AvailableLines(rows)[i]))) :
                    i \in 1..Len(AvailableLines(rows))}
      [] page = "04" ->
            IF Cardinality(StationOptions(rows)) < 2
            THEN {Outcome("need_two_stations", <<>>)}
            ELSE {Outcome("none", OptionsSorted(OfStations(rows, chosen, direction))) :
                    chosen \in {c \in SUBSET StationOptions(rows) : Cardinality(c) >= 2},
                    direction \in {None} \cup {rows[i].direction : i \in 1..Len(rows)}}
      [] page = "05" ->
            IF AvailableLines(rows) = <<>> THEN {Outcome("no_lines", <<>>)}
            ELSE {Outcome("none", <<>>)}
                 \cup {Outcome("none", OptionsSorted(OfLine(rows, AvailableLines(rows)[i]))) :
                         i \in 1..Len(AvailableLines(rows))}

\* pd.cut(congestion, [0, 30, 70, 130, inf], labels, include_lowest=True):
\* the number of the interval, missing for a value outside all of them
CongestionLevel(x) ==
    IF IsNaN(x) \/ x.v < 0 THEN NaN
    ELSE IF x.v <= Percent(30) THEN Num(1)
    ELSE IF x.v <= Percent(70) THEN Num(2)
    ELSE IF x.v <= Percent(130) THEN Num(3)
    ELSE Num(4)

\* df['congestion_level'] = pd.cut(...): the table with one more column
WithCongestionLevel(rows) ==
    [i \in 1..Len(rows) |->
        [c \in LongColumns \cup {"congestion_level"} |->
            IF c = "congestion_level" THEN CongestionLevel(rows[i].congestion)
            ELSE rows[i][c]]]

(***************************************************************************)
(* The tables get_data gives a page and what the user does in the sidebar  *)
(***************************************************************************)
MaxPageRows == 2

PageRowPool ==
    {LongRow(Str(WEEKDAY), Str(LINE_2), Num(2220), Str(GANGNAM), Str(UP), Str(L_0530), 452),
     LongRow(Str(WEEKDAY), Str(LINE_2), Num(2210), Str(YEOKSAM), Str(UP), Str(L_0000), 300),
     LongRow(Str(WEEKDAY), Str(LINE_1), Num(1500), Str(SEOUL), Str(DOWN), Str(L_2330), 2001),
     LongRow(Str(SATURDAY), Str(LINE_2), Num(2220), Str(GANGNAM), Str(UP), Str(L_0030), 2000),
     LongRow(Str(WEEKDAY), Str(LINE_1), Num(1500), Str(SEOUL), Str(UP), NaN, 1305),
     LongRow(Str(WEEKDAY), Str(LINE_9_STAGES), Num(9010), Str(SEOUL), Str(UP), Str(L_0600), 71)}

PageTables == {SortValues(rs) : rs \in SeqsUpTo(PageRowPool, MaxPageRows)}

\* The ends of the time slider the user can move to, as indexes of
\* TIME_ORDER counted from 0
TimePicks == {<<0, 0>>, <<35, 38>>}

\* The ends of the congestion slider the user can move to
CongestionPicks == {<<0, 0>>, <<50, 200>>}

\* The widget states: the untouched sidebar, and the sidebar with one
\* widget changed.
Selections(d) ==
    LET untouched == DefaultSelection(d)
        day_types == get_unique_values(d, "day_type").vals
        lines == get_unique_values(d, "line").vals
        directions == get_unique_values(d, "direction").vals
        stations == AvailableStations(d, untouched.lines)
        Singles(vs) == {<<vs[i]>> : i \in 1..Len(vs)}
    IN  {untouched}
        \cup {[untouched EXCEPT !.day = i] : i \in 1..Len(day_types)}
        \cup {[untouched EXCEPT !.lines = l] : l \in {<<>>} \cup Singles(lines)}
        \cup {[untouched EXCEPT !.stations = x] : x \in Singles(stations)}
        \cup {[untouched EXCEPT !.directions = x] : x \in {<<>>} \cup Singles(directions)}
        \cup {[untouched EXCEPT !.time = t] : t \in TimePicks}
        \cup {[untouched EXCEPT !.congestion = c] : c \in CongestionPicks}

PageParked ==
    /\ pg = "none" /\ pdf = <<>> /\ pgot = <<>> /\ pfilters = EmptyFilters
    /\ pfiltered = <<>> /\ ppc = "parked" /\ pshown = "none" /\ pevals = {}
    /\ popts = <<>> /\ perr = "none"

\* pg is the page, pdf the table get_data returned to it as the page holds
\* it now and pgot as get_data returned it; pfilters and pfiltered are the
\* results of render_filters and filter_data, pevals the aggregates
\* evaluated on df_filtered, pshown the message of an early return, popts
\* the time-slot options offered and perr the exception that ended the run.
PageInit ==
    /\ pg \in Pages
    /\ pdf \in PageTables
    /\ pgot = pdf
    /\ pfilters = EmptyFilters
    /\ pfiltered = <<>>
    /\ ppc = "start"
    /\ pshown = "none"
    /\ pevals = {}
    /\ popts = <<>>
    /\ perr = "none"

\* filters = render_filters(df)
RenderFilters ==
    /\ ppc = "start"
    /\ pg \in FilterPages
    /\ \E sel \in Selections(pdf) :
          LET r == render_filters(pdf, sel)
          IN  IF r.ok
              THEN /\ pfilters' = r.filters
                   /\ ppc' = "filters"
                   /\ UNCHANGED perr
              ELSE /\ perr' = r.exc
                   /\ ppc' = "done"
                   /\ UNCHANGED pfilters
    /\ UNCHANGED <<pg, pdf, pgot, pfiltered, pshown, pevals, popts>>

\* df_filtered = filter_data(df, filters); show_data_info(df_filtered)
FilterAndInfo ==
    /\ ppc = "filters"
    /\ pfiltered' = filter_data(pdf, pfilters)
    /\ pdf' = DfAfterFilter(pdf, pfilters)
    /\ pevals' = DataInfoAggregates(pfiltered')
    /\ ppc' = "filtered"
    /\ UNCHANGED <<pg, pgot, pfilters, pshown, popts, perr>>

\* The branch for an empty result: st.warning(...) and the end of the run
WarnNoData ==
    /\ ppc = "filtered"
    /\ IsEmptyResult(pfiltered)
    /\ pshown' = NO_DATA
    /\ ppc' = "done"
    /\ UNCHANGED <<pg, pdf, pgot, pfilters, pfiltered, pevals, popts, perr>>

\* The rest of the page: its aggregates on df_filtered, then its selectors
Body ==
    /\ ppc = "filtered"
    /\ ~IsEmptyResult(pfiltered)
    /\ pevals' = pevals \cup Aggregates(pg)
    /\ ppc' = "done"
    /\ IF Len(pfiltered) = 0 /\ Aggregates(pg) \cap RaisesOnEmpty # {}
       THEN /\ perr' = "ValueError"
            /\ UNCHANGED <<pshown, popts>>
       ELSE /\ \E o \in BodyOutcomes(pg, pfiltered) :
                  pshown' = o.shown /\ popts' = o.opts
            /\ UNCHANGED perr
    /\ UNCHANGED <<pg, pdf, pgot, pfilters, pfiltered>>

\* Page 06 up to the distribution by congestion level: the column
\* congestion_level is written into df.
InspectData ==
    /\ ppc = "start"
    /\ pg = "06"
    /\ pdf' = WithCongestionLevel(pdf)
    /\ ppc' = "done"
    /\ UNCHANGED <<pg, pgot, pfilters, pfiltered, pshown, pevals, popts, perr>>

ConcurrentParked == waited = [s \in Sessions |-> FALSE] /\ failed = {}

(***************************************************************************)
(* get_data called from several sessions at once.  Every session runs its  *)
(* script in a thread of its own; st.cache_data looks the argument up in   *)
(* its store and, when nothing is stored, takes the lock of that key,      *)
(* looks again and only then runs the body of get_data, so that the body   *)
(* runs in one session at a time for one path.                             *)
(***************************************************************************)
ConcurrentSessions == {"s1", "s2"}

\* The sessions in the body of get_data for the path p
Computing(p) ==
    {s \in DOMAIN pc : path[s] = p /\ pc[s] \in {"check", "load", "clean", "melt", "store"}}

\* LockFree gone wrong: the lock of a key is never held.
LockFreeAlways(p) == TRUE

\* The lock of the key p is free: no session is in the body for p.
LockFree(p) == Computing(p) = {}

ConcurrentInit ==
    /\ fs \in [Paths -> {NoFile} \cup FilePool]
    /\ cache = [p \in Paths |-> NoEntry]
    /\ pc = [s \in ConcurrentSessions |-> "idle"]
    /\ path = [s \in ConcurrentSessions |-> DEFAULT_PATH]
    /\ existed = [s \in ConcurrentSessions |-> "unknown"]
    /\ tried = [s \in ConcurrentSessions |-> <<>>]
    /\ outcomes = [s \in ConcurrentSessions |-> <<>>]
    /\ trace = [s \in ConcurrentSessions |-> <<>>]
    /\ df_raw = [s \in ConcurrentSessions |-> EmptyTable]
    /\ df_clean = [s \in ConcurrentSessions |-> EmptyTable]
    /\ ret = [s \in ConcurrentSessions |-> NoResult]
    /\ waited = [s \in ConcurrentSessions |-> FALSE]
    /\ failed = {}

\* get_data(p) with a result stored for p
HitAtOnce(s, p) ==
    /\ CallHit(s, p)
    /\ waited' = [waited EXCEPT ![s] = FALSE]

\* get_data(p) with nothing stored for p: the session goes for the lock.
MissAtFirst(s, p) ==
    /\ pc[s] \in {"idle", "done"}
    /\ ~cache[p].stored
    /\ Fresh(s, p)
    /\ existed' = [existed EXCEPT ![s] = "unknown"]
    /\ ret' = [ret EXCEPT ![s] = NoResult]
    /\ pc' = [pc EXCEPT ![s] = "lock"]
    /\ waited' = [waited EXCEPT ![s] = FALSE]
    /\ UNCHANGED <<fs, cache>>

\* The lock is held: the session blocks.
Wait(s) ==
    /\ pc[s] = "lock"
    /\ ~LockFree(path[s])
    /\ ~waited[s]
    /\ waited' = [waited EXCEPT ![s] = TRUE]
    /\ UNCHANGED dvars

\* The session takes the lock and looks the path up again: a result stored
\* by now is returned, otherwise the body of get_data starts.
Acquire(s) ==
    /\ pc[s] = "lock"
    /\ LockFree(path[s])
    /\ IF cache[path[s]].stored
       THEN /\ ret' = [ret EXCEPT ![s] = Returned(cache[path[s]].rows, TRUE)]
            /\ pc' = [pc EXCEPT ![s] = "done"]
       ELSE /\ pc' = [pc EXCEPT ![s] = "check"]
            /\ UNCHANGED ret
    /\ UNCHANGED <<fs, cache, path, existed, tried, outcomes, trace, df_raw, df_clean, waited>>

(***************************************************************************)
(* Specifications                                                          *)
(***************************************************************************)
SpecFormatInit == FormatInit /\ OrderParked /\ ReshapeParked /\ DataParked /\ FilterParked /\ LookupParked /\ PageParked /\ ConcurrentParked

SpecFormatNext == FormatHeader /\ UNCHANGED <<ovars, rvars, dvars, qvars, uvars, pvars, cvars>>

SpecFormat == SpecFormatInit /\ [][SpecFormatNext]_vars

SpecOrderInit == FormatParked /\ OrderInit /\ ReshapeParked /\ DataParked /\ FilterParked /\ LookupParked /\ PageParked /\ ConcurrentParked

SpecOrderNext == CompareSlots /\ UNCHANGED <<fvars, rvars, dvars, qvars, uvars, pvars, cvars>>

SpecOrder == SpecOrderInit /\ [][SpecOrderNext]_vars

SpecReshapeInit == FormatParked /\ OrderParked /\ ReshapeInit /\ DataParked /\ FilterParked /\ LookupParked /\ PageParked /\ ConcurrentParked

SpecReshapeNext ==
    \/ CleanData /\ UNCHANGED <<fvars, ovars, dvars, qvars, uvars, pvars, cvars>>
    \/ MeltReturns /\ UNCHANGED <<fvars, ovars, dvars, qvars, uvars, pvars, cvars>>
    \/ MeltRaises /\ UNCHANGED <<fvars, ovars, dvars, qvars, uvars, pvars, cvars>>

SpecReshape == SpecReshapeInit /\ [][SpecReshapeNext]_vars

SpecFilterInit == FormatParked /\ OrderParked /\ ReshapeParked /\ DataParked /\ FilterInit /\ LookupParked /\ PageParked /\ ConcurrentParked

SpecFilterNext == FilterData /\ UNCHANGED <<fvars, ovars, rvars, dvars, uvars, pvars, cvars>>

SpecFilter == SpecFilterInit /\ [][SpecFilterNext]_vars

SpecLookupInit ==
    FormatParked /\ OrderParked /\ ReshapeParked /\ DataParked /\ FilterParked /\ LookupInit /\ PageParked /\ ConcurrentParked

SpecLookupNext ==
    \/ UniqueValues /\ UNCHANGED <<fvars, ovars, rvars, dvars, qvars, pvars, cvars>>
    \/ StationsByLine /\ UNCHANGED <<fvars, ovars, rvars, dvars, qvars, pvars, cvars>>

SpecLookup == SpecLookupInit /\ [][SpecLookupNext]_vars

Init == FormatParked /\ OrderParked /\ ReshapeParked /\ DataInit /\ FilterParked /\ LookupParked /\ PageParked /\ ConcurrentParked

Next ==
    \/ \E s \in Sessions, p \in Paths : CallHit(s, p) /\ UNCHANGED <<fvars, ovars, rvars, qvars, uvars, pvars, waited>> /\ NoteFailures
    \/ \E s \in Sessions, p \in Paths : CallMiss(s, p) /\ UNCHANGED <<fvars, ovars, rvars, qvars, uvars, pvars, waited>> /\ NoteFailures
    \/ \E s \in Sessions : CheckExists(s) /\ UNCHANGED <<fvars, ovars, rvars, qvars, uvars, pvars, waited>> /\ NoteFailures
    \/ \E s \in Sessions : TryEncoding(s) /\ UNCHANGED <<fvars, ovars, rvars, qvars, uvars, pvars, waited>> /\ NoteFailures
    \/ \E s \in Sessions : Clean(s) /\ UNCHANGED <<fvars, ovars, rvars, qvars, uvars, pvars, waited>> /\ NoteFailures
    \/ \E s \in Sessions : Reshape(s) /\ UNCHANGED <<fvars, ovars, rvars, qvars, uvars, pvars, waited>> /\ NoteFailures
    \/ \E s \in Sessions : Store(s) /\ UNCHANGED <<fvars, ovars, rvars, qvars, uvars, pvars, waited>> /\ NoteFailures
    \/ \E p \in Paths, f \in FilePool : WriteFile(p, f) /\ UNCHANGED <<fvars, ovars, rvars, qvars, uvars, pvars, waited>> /\ NoteFailures
    \/ \E p \in Paths : DeleteFile(p) /\ UNCHANGED <<fvars, ovars, rvars, qvars, uvars, pvars, waited>> /\ NoteFailures

Spec == Init /\ [][Next]_vars

SpecConcurrentInit ==
    FormatParked /\ OrderParked /\ ReshapeParked /\ ConcurrentInit /\ FilterParked /\ LookupParked
        /\ PageParked

SpecConcurrentNext ==
    \/ \E s \in ConcurrentSessions, p \in Paths : HitAtOnce(s, p) /\ UNCHANGED <<fvars, ovars, rvars, qvars, uvars, pvars, failed>>
    \/ \E s \in ConcurrentSessions, p \in Paths : MissAtFirst(s, p) /\ UNCHANGED <<fvars, ovars, rvars, qvars, uvars, pvars, failed>>
    \/ \E s \in ConcurrentSessions : Wait(s) /\ UNCHANGED <<fvars, ovars, rvars, qvars, uvars, pvars, failed>>
    \/ \E s \in ConcurrentSessions : Acquire(s) /\ UNCHANGED <<fvars, ovars, rvars, qvars, uvars, pvars, failed>>
    \/ \E s \in ConcurrentSessions : CheckExists(s) /\ UNCHANGED waited /\ UNCHANGED <<fvars, ovars, rvars, qvars, uvars, pvars, failed>>
    \/ \E s \in ConcurrentSessions : TryEncoding(s) /\ UNCHANGED waited /\ UNCHANGED <<fvars, ovars, rvars, qvars, uvars, pvars, failed>>
    \/ \E s \in ConcurrentSessions : Clean(s) /\ UNCHANGED waited /\ UNCHANGED <<fvars, ovars, rvars, qvars, uvars, pvars, failed>>
    \/ \E s \in ConcurrentSessions : Reshape(s) /\ UNCHANGED waited /\ UNCHANGED <<fvars, ovars, rvars, qvars, uvars, pvars, failed>>
    \/ \E s \in ConcurrentSessions : Store(s) /\ UNCHANGED waited /\ UNCHANGED <<fvars, ovars, rvars, qvars, uvars, pvars, failed>>

SpecConcurrent == SpecConcurrentInit /\ [][SpecConcurrentNext]_vars

SpecPageInit ==
    FormatParked /\ OrderParked /\ ReshapeParked /\ DataParked /\ FilterParked /\ LookupParked
        /\ PageInit /\ ConcurrentParked

SpecPageNext ==
    \/ RenderFilters /\ UNCHANGED <<fvars, ovars, rvars, dvars, qvars, uvars, cvars>>
    \/ FilterAndInfo /\ UNCHANGED <<fvars, ovars, rvars, dvars, qvars, uvars, cvars>>
    \/ WarnNoData /\ UNCHANGED <<fvars, ovars, rvars, dvars, qvars, uvars, cvars>>
    \/ Body /\ UNCHANGED <<fvars, ovars, rvars, dvars, qvars, uvars, cvars>>
    \/ InspectData /\ UNCHANGED <<fvars, ovars, rvars, dvars, qvars, uvars, cvars>>

SpecPage == SpecPageInit /\ [][SpecPageNext]_vars

(***************************************************************************)
(* Properties of the time order                                            *)
(***************************************************************************)
PositionInTimeOrder(l) == CHOOSE i \in 1..Len(TIME_ORDER) : TIME_ORDER[i] = l

\* Minutes from 05:30 to the label "HH:MM" on a service day that runs from
\* 05:30 past midnight.
ServiceMinute(l) ==
    (ParseInt(SubSeq(l, 1, 2)) * 60 + ParseInt(SubSeq(l, 4, 5)) + 1440 - 330) % 1440

\* C1: for every pair of TIME_ORDER labels (a, b), the comparison of the
\* time_slot column gives a < b exactly when a comes before b in TIME_ORDER
\* (which is the order of the service day, 05:30 to 00:30 past midnight),
\* never by string order: 05:30 is the minimum, 00:30 the maximum, and
\* 23:30 < 00:30.
C1_TimeOrderComparison ==
    (ostage = "done" /\ ~IsNaN(ta) /\ ~IsNaN(tb)) =>
        /\ cmp <=> PositionInTimeOrder(ta.s) < PositionInTimeOrder(tb.s)
        /\ cmp <=> ServiceMinute(ta.s) < ServiceMinute(tb.s)
        /\ tb.s = L_0530 => ~cmp
        /\ ta.s = L_0030 => ~cmp
        /\ (ta.s = L_0530 /\ tb.s # L_0530) => cmp
        /\ (tb.s = L_0030 /\ ta.s # L_0030) => cmp

C1_Witness ==
    ostage = "done" /\ ta = Str(L_2330) /\ tb = Str(L_0030) /\ cmp

(***************************************************************************)
(* Properties of format_time_column                                        *)
(***************************************************************************)
\* A digit run without its leading zeros, then zero-padded to two digits
RECURSIVE TwoDigits(_)
TwoDigits(ds) ==
    IF Len(ds) > 1 /\ ds[1] = "0" THEN TwoDigits(Tail(ds))
    ELSE IF Len(ds) = 1 THEN <<"0">> \o ds
    ELSE ds

AllDigits(ds) == ds # <<>> /\ \A i \in 1..Len(ds) : IsDigit(ds[i])

\* s[i..k] is <H>si<M>bun, H and M digit runs not preceded by a digit
PatternAt(s, i, j, k) ==
    /\ 1 <= i /\ i < j /\ j + 1 < k /\ k <= Len(s)
    /\ s[j] = "si" /\ s[k] = "bun"
    /\ AllDigits(SubSeq(s, i, j - 1))
    /\ AllDigits(SubSeq(s, j + 1, k - 1))
    /\ (i > 1 => ~IsDigit(s[i - 1]))

HasPattern(s) == \E i, j, k \in 1..Len(s) : PatternAt(s, i, j, k)

\* C6: format_time_column maps every header <H>si<M>bun (H and M digit
\* runs, padded or not) to the zero-padded label HH:MM, a header that holds
\* such a pattern to the label of its leftmost occurrence, and returns every
\* header without the pattern unchanged.
C6_FormatTimeColumn ==
    fstage = "done" =>
        /\ \A j \in 1..Len(hdr) :
              PatternAt(hdr, 1, j, Len(hdr)) =>
                  label = TwoDigits(SubSeq(hdr, 1, j - 1)) \o <<":">>
                          \o TwoDigits(SubSeq(hdr, j + 1, Len(hdr) - 1))
        /\ \A i, j, k \in 1..Len(hdr) :
              (/\ PatternAt(hdr, i, j, k)
               /\ ~\E i2, j2, k2 \in 1..Len(hdr) : i2 < i /\ PatternAt(hdr, i2, j2, k2))
              => label = TwoDigits(SubSeq(hdr, i, j - 1)) \o <<":">>
                         \o TwoDigits(SubSeq(hdr, j + 1, k - 1))
        /\ ~HasPattern(hdr) => label = hdr
        /\ hdr = <<"5", "si", "3", "0", "bun">> => label = L_0530
        /\ hdr = <<"0", "8", "si", "0", "0", "bun">> => label = <<"0", "8", ":", "0", "0">>
        /\ hdr = <<"0", "si", "3", "0", "bun">> => label = L_0030
        /\ hdr = <<"hap", "gye">> => label = <<"hap", "gye">>

C6_Witness ==
    /\ fstage = "done"
    /\ hdr = <<"5", "si", "3", "0", "bun">>
    /\ label = L_0530

(***************************************************************************)
(* Properties of melt_to_long                                              *)
(***************************************************************************)
TimeOrderLabels == {TIME_ORDER[i] : i \in 1..Len(TIME_ORDER)}

\* C2: in every row of the table returned by melt_to_long, time_slot is one
\* of the 39 labels of TIME_ORDER: no row carries a missing time_slot or a
\* label outside that list.
C2_TimeSlotInTimeOrder ==
    stage = "long" =>
        \A k \in 1..Len(long) :
            /\ long[k].time_slot.t = "str"
            /\ long[k].time_slot.s \in TimeOrderLabels

\* C3: in every row of the table returned by melt_to_long, congestion is
\* present and numeric: a cell that fails numeric coercion never appears as
\* a row with a missing congestion value.
C3_CongestionPresent ==
    stage = "long" =>
        \A k \in 1..Len(long) : long[k].congestion.t = "num"

TimeColIndexes(t) == {c \in 1..Len(t.cols) : IsTimeCol(t.cols[c])}

\* The number a cell of the pool holds, -1 when it holds none
ExpectedNumber(x) ==
    CASE x.t = "num" -> x.v
      [] x = Str(<<"4", "5", ".", "2">>) -> 452
      [] x = Str(<<"0">>) -> 0
      [] x = Str(<<"7">>) -> 70
      [] x = Str(<<"1", "0", "0">>) -> 1000
      [] OTHER -> -1

C3_Witness ==
    /\ stage = "long"
    /\ long # <<>>
    /\ \E i \in 1..Len(df.rows) : \E c \in TimeColIndexes(df) :
          df.rows[i][c] = Str(NA_TEXT)

\* Rows a and b are in ascending order of (line, station, direction,
\* time_slot): strings by code points, time_slot by position in TIME_ORDER
\* (rows with the same time_slot are in order; a missing time_slot has no
\* position).
KeyAscending(a, b) ==
    IF a.line # b.line THEN StrLess(a.line.s, b.line.s)
    ELSE IF a.station # b.station THEN StrLess(a.station.s, b.station.s)
    ELSE IF a.direction # b.direction THEN StrLess(a.direction.s, b.direction.s)
    ELSE \/ a.time_slot = b.time_slot
         \/ /\ a.time_slot.t = "str" /\ a.time_slot.s \in TimeOrderLabels
            /\ b.time_slot.t = "str" /\ b.time_slot.s \in TimeOrderLabels
            /\ PositionInTimeOrder(a.time_slot.s) < PositionInTimeOrder(b.time_slot.s)

\* C4: the rows returned by melt_to_long are in ascending order of the
\* tuple (line, station, direction, time_slot), time_slot compared by its
\* position in TIME_ORDER.
C4_SortedByKey ==
    stage = "long" =>
        \A k \in 1..(Len(long) - 1) : KeyAscending(long[k], long[k + 1])

\* The part of C4 that the code keeps: among the rows that carry a label of
\* TIME_ORDER the order is ascending.
C4_SortedAmongLabelled ==
    stage = "long" =>
        \A k \in 1..(Len(long) - 1) :
            (~IsNaN(long[k].time_slot) /\ ~IsNaN(long[k + 1].time_slot))
            => KeyAscending(long[k], long[k + 1])

Count(rs, x) == Cardinality({k \in 1..Len(rs) : rs[k] = x})

\* The (input row, time-slot column) pairs of the table given to
\* melt_to_long whose cell holds a number
NumberPairs(t) ==
    {p \in (1..Len(t.rows)) \X TimeColIndexes(t) :
        ExpectedNumber(t.rows[p[1]][p[2]]) >= 0}

\* The long row of the pair p
PairRow(t, p) ==
    [day_type |-> Cell(t, p[1], COL_DAY),
     line |-> Cell(t, p[1], COL_LINE),
     station_id |-> Cell(t, p[1], COL_STATION_ID),
     station |-> Cell(t, p[1], COL_STATION),
     direction |-> Cell(t, p[1], COL_DIRECTION),
     time_slot |-> ToCategorical(Str(format_time_column(t.cols[p[2]]))),
     congestion |-> Num(ExpectedNumber(t.rows[p[1]][p[2]]))]

\* C5: for an input of R rows and T time-slot columns, melt_to_long returns
\* exactly one row for each (input row, time-slot column) pair whose cell
\* parses as a number and no row for any other pair: the row count is R*T
\* minus the number of unparseable or absent cells, and a cell 0 yields a
\* row with congestion 0.
C5_OneRowPerNumberCell ==
    stage = "long" =>
        LET pairs == NumberPairs(df)
            R == Len(df.rows)
            T == Cardinality(TimeColIndexes(df))
            dropped == {p \in (1..R) \X TimeColIndexes(df) : p \notin pairs}
        IN  /\ Len(long) = R * T - Cardinality(dropped)
            /\ \A p \in pairs :
                  Count(long, PairRow(df, p))
                      = Cardinality({q \in pairs : PairRow(df, q) = PairRow(df, p)})
            /\ \A k \in 1..Len(long) : \E p \in pairs : long[k] = PairRow(df, p)

C5_Witness ==
    /\ stage = "long"
    /\ Len(df.rows) = 2
    /\ \E c \in TimeColIndexes(df) :
          /\ df.rows[1][c] = Str(<<"0">>)
          /\ df.rows[2][c] = Str(NA_TEXT)
    /\ \E k \in 1..Len(long) : long[k].congestion = Num(0)
    /\ Len(long) < 2 * Cardinality(TimeColIndexes(df))

\* The wide input of the scenario: one row 2-ho-seon, gang-nam, sang-seon
\* with 45.2 under "5si30bun" and 0 under "6si00bun"
ScenarioHeaders == <<<<"5", "si", "3", "0", "bun">>, <<"6", "si", "0", "0", "bun">>>>

ScenarioRow ==
    [day |-> Str(WEEKDAY), line |-> Str(LINE_2), sid |-> Num(2220),
     station |-> Str(GANGNAM), dir |-> Str(UP),
     cells |-> <<Str(<<"4", "5", ".", "2">>), Str(<<"0">>), NaN>>]

ScenarioThreeIdCols ==
    BuildTable(<<COL_LINE, COL_STATION, COL_DIRECTION>>, ScenarioHeaders, <<ScenarioRow>>)

ScenarioAllIdCols == BuildTable(id_cols, ScenarioHeaders, <<ScenarioRow>>)

ScenarioRowOf(r, slot, value) ==
    /\ r.line = Str(LINE_2)
    /\ r.station = Str(GANGNAM)
    /\ r.direction = Str(UP)
    /\ r.time_slot = Str(slot)
    /\ r.congestion = Num(value)

\* C7 as stated: the input with the columns ho-seon, chul-bal-yeok,
\* sang-ha-gu-bun, 5si30bun, 6si00bun and nothing else is reshaped into
\* exactly the two rows (05:30, 45.2) and (06:00, 0).
C7_ScenarioThreeIdCols ==
    (raw = ScenarioThreeIdCols /\ stage \in {"long", "error"}) =>
        /\ stage = "long"
        /\ Len(long) = 2
        /\ ScenarioRowOf(long[1], L_0530, 452)
        /\ ScenarioRowOf(long[2], L_0600, 0)

\* C7 amended: the same input with all five identifying columns (day type
\* pyeong-il, station id 222) is reshaped into exactly the two rows
\* (05:30, 45.2) and (06:00, 0); with the three identifying columns alone
\* melt_to_long raises KeyError.
C7_ScenarioAllIdCols ==
    /\ (raw = ScenarioAllIdCols /\ stage \in {"long", "error"}) =>
          /\ stage = "long"
          /\ Len(long) = 2
          /\ ScenarioRowOf(long[1], L_0530, 452)
          /\ ScenarioRowOf(long[2], L_0600, 0)
          /\ \A k \in 1..2 :
                long[k].day_type = Str(WEEKDAY) /\ long[k].station_id = Num(2220)
    /\ (raw = ScenarioThreeIdCols /\ stage \in {"long", "error"}) =>
          stage = "error" /\ exc = "KeyError"

C7_Witness ==
    /\ raw = ScenarioAllIdCols
    /\ stage = "long"
    /\ Len(long) = 2

(***************************************************************************)
(* Properties of load_raw_data and get_data                                *)
(***************************************************************************)
IsPrefix(a, b) == Len(a) <= Len(b) /\ a = SubSeq(b, 1, Len(a))

\* C8: load_raw_data tries the encodings in the fixed order cp949, euc-kr,
\* utf-8-sig, utf-8 and returns the parse of the first encoding that
\* decodes the file; an encoding is attempted only if every encoding before
\* it failed with a decode error, and no encoding after the first success
\* is attempted.
C8_EncodingOrder ==
    \A s \in Sessions :
        LET n == Len(tried[s])
        IN  /\ IsPrefix(tried[s], <<"cp949", "euc-kr", "utf-8-sig", "utf-8">>)
            /\ Len(outcomes[s]) = n
            /\ \A i \in 1..(n - 1) : outcomes[s][i] = "decode"
            /\ (n > 0 /\ outcomes[s][n] = "ok") =>
                  /\ pc[s] # "load"
                  /\ df_raw[s] \in {TableOf(f.content) : f \in {g \in FilePool : tried[s][n] \in g.decodes}}
            /\ pc[s] \in {"clean", "melt", "store"} => (n > 0 /\ outcomes[s][n] = "ok")
            /\ df_raw[s] # EmptyTable => (n > 0 /\ outcomes[s][n] = "ok")

C8_Witness ==
    /\ tried["s1"] = <<"cp949", "euc-kr", "utf-8-sig">>
    /\ outcomes["s1"] = <<"decode", "decode", "ok">>
    /\ df_raw["s1"] = TableOf("B")
    /\ pc["s1"] = "clean"

\* C9: load_raw_data raises the ValueError of no supported encoding exactly
\* when all four encodings fail with a decode error; when an attempt fails
\* with any other error, that error is propagated at once, no later
\* encoding is tried, and no table is returned.
C9_LoadFailures ==
    \A s \in Sessions :
        /\ ret[s] = Raised("ValueError")
              <=> (/\ Len(outcomes[s]) = 4
                   /\ \A i \in 1..4 : outcomes[s][i] = "decode")
        /\ \A i \in 1..Len(outcomes[s]) :
              outcomes[s][i] = "error" =>
                  /\ i = Len(outcomes[s])
                  /\ Len(tried[s]) = i
                  /\ ret[s] = Raised("ReadError")
                  /\ pc[s] = "done"
                  /\ df_raw[s] = EmptyTable
                  /\ trace[s] = <<"load_raw_data">>

C9_Witness ==
    /\ ret["s1"] = Raised("ValueError")
    /\ tried["s1"] = <<"cp949", "euc-kr", "utf-8-sig", "utf-8">>
    /\ pc["s1"] = "done"

Stages == <<"load_raw_data", "clean_data", "melt_to_long">>

\* C10 as stated: whenever get_data is called for a path that does not
\* exist, it raises FileNotFoundError and calls none of the three stages.
C10_MissingPathAlwaysRaises ==
    \A s \in Sessions :
        (pc[s] = "done" /\ existed[s] = "no") =>
            /\ ret[s] = Raised("FileNotFoundError")
            /\ trace[s] = <<>>

\* C10 amended: on a call that is not served from the cache, get_data checks
\* that the file exists before anything else: when the path does not exist
\* it raises FileNotFoundError (not the ValueError of undecodable files)
\* without calling load_raw_data, clean_data or melt_to_long; when the path
\* exists the stages run in the order load_raw_data, clean_data,
\* melt_to_long.  A call served from the cache runs no check and no stage.
C10_CheckBeforeLoad ==
    \A s \in Sessions :
        /\ (pc[s] = "done" /\ existed[s] = "no" /\ ~(ret[s].kind = "table" /\ ret[s].cached)) =>
              /\ ret[s] = Raised("FileNotFoundError")
              /\ trace[s] = <<>>
        /\ ret[s] = Raised("FileNotFoundError") =>
              /\ existed[s] = "no" /\ trace[s] = <<>> /\ outcomes[s] = <<>>
        /\ IsPrefix(trace[s], Stages)
        /\ trace[s] # <<>> => existed[s] = "yes"
        /\ (ret[s].kind = "table" /\ ~ret[s].cached) => trace[s] = Stages
        /\ (ret[s].kind = "table" /\ ret[s].cached) => trace[s] = <<>>

C10_Witness ==
    /\ pc["s1"] = "done"
    /\ existed["s1"] = "no"
    /\ ret["s1"] = Raised("FileNotFoundError")

(***************************************************************************)
(* C11: the store of st.cache_data                                         *)
(***************************************************************************)
\* A step of session s that begins a call of get_data
BeginsCall(s) ==
    /\ pc[s] \in {"idle", "done"}
    /\ <<pc[s], path[s], existed[s], trace[s], ret[s]>>' #
          <<pc[s], path[s], existed[s], trace[s], ret[s]>>

\* C11: over any sequence of get_data calls in one process the pipeline runs
\* at most once for each path that has loaded: a stored result is never
\* replaced or dropped, a call for a path with a stored result returns that
\* result and runs no stage and no read of the file (whatever the file on
\* disk holds by then), the body of get_data starts only for a path with
\* nothing stored, and a call for such a path does start it.
C11_PipelineOncePerPath ==
    [][\A s \in Sessions :
          /\ \A p \in Paths : cache[p].stored => cache'[p] = cache[p]
          /\ pc'[s] = "check" /\ pc[s] # "check" => ~cache[path'[s]].stored
          /\ BeginsCall(s) /\ cache[path'[s]].stored =>
                /\ ret'[s] = Returned(cache[path'[s]].rows, TRUE)
                /\ pc'[s] = "done"
                /\ trace'[s] = <<>> /\ tried'[s] = <<>> /\ outcomes'[s] = <<>>
          /\ BeginsCall(s) /\ ~cache[path'[s]].stored =>
                /\ pc'[s] = "check" /\ ret'[s] = NoResult]_vars

\* The rows the pipeline would give for the file now at p
RowsOnDisk(p) == melt_to_long(clean_data(TableOf(fs[p].content)))

\* Both paths have loaded, and a call for the default path has returned the
\* stored table although the file now spells another table.
C11_Witness ==
    /\ \A p \in Paths : cache[p].stored
    /\ pc["s1"] = "done"
    /\ path["s1"] = DEFAULT_PATH
    /\ ret["s1"] = Returned(cache[DEFAULT_PATH].rows, TRUE)
    /\ Exists(DEFAULT_PATH)
    /\ RowsOnDisk(DEFAULT_PATH).ok
    /\ RowsOnDisk(DEFAULT_PATH).rows # cache[DEFAULT_PATH].rows

(***************************************************************************)
(* C12, C13: tables of the wrong shape                                     *)
(***************************************************************************)
\* C12: when the cleaned table has no column whose header holds both the
\* hour sign and the minute sign, melt_to_long fails with an error and
\* returns no table, not even an empty one.
C12_NoTimeColumnFails ==
    (stage \in {"long", "error"} /\ TimeCols(df) = <<>>) =>
        /\ stage = "error"
        /\ exc # "none"

\* The identifying columns that the table lacks
MissingIdCols(t) == {k \in 1..Len(id_cols) : ~HasCol(t, id_cols[k])}

\* The errors of get_data for a missing file and for an undecodable file
LoadErrors == {"FileNotFoundError", "ValueError"}

\* C13: when the cleaned table lacks any of the five identifying columns,
\* melt_to_long returns no table and fails with an error (the KeyError of
\* melt) that is neither the file-not-found error nor the
\* unsupported-encoding error; it fails in this way for no other table.
C13_MissingIdColumnFails ==
    /\ (stage \in {"long", "error"} /\ MissingIdCols(df) # {}) =>
          /\ stage = "error"
          /\ exc = "KeyError"
          /\ exc \notin LoadErrors
          /\ long = <<>>
    /\ stage = "error" => MissingIdCols(df) # {}

\* A table with rows and time-slot columns but without the day-type and
\* station-id columns has been refused.
C13_Witness ==
    /\ stage = "error"
    /\ exc = "KeyError"
    /\ MissingIdCols(df) = {1, 3}
    /\ TimeCols(df) # <<>>
    /\ df.rows # <<>>

(***************************************************************************)
(* C14 to C17: filter_data                                                 *)
(***************************************************************************)
\* A constraint that is given: not absent, None, the empty text or the
\* empty list.
Specified(v) == v \notin {Absent, None, Str(<<>>), List(<<>>)}

Items(l) == {l.items[i] : i \in 1..Len(l.items)}

HasPosition(x) == \E i \in 1..Len(TIME_ORDER) : Str(TIME_ORDER[i]) = x

WithinTimeRange(r, range) ==
    /\ HasPosition(r.time_slot)
    /\ PositionInTimeOrder(range.a) <= PositionInTimeOrder(r.time_slot.s)
    /\ PositionInTimeOrder(r.time_slot.s) <= PositionInTimeOrder(range.b)

WithinCongestionRange(r, range) ==
    /\ r.congestion.t = "num"
    /\ range.a <= r.congestion.v
    /\ r.congestion.v <= range.b

\* Row r meets every constraint that configuration f gives
Satisfies(r, f) ==
    /\ Specified(f["day_type"]) => r.day_type = f["day_type"]
    /\ Specified(f["lines"]) => r.line \in Items(f["lines"])
    /\ Specified(f["stations"]) => r.station \in Items(f["stations"])
    /\ Specified(f["directions"]) => r.direction \in Items(f["directions"])
    /\ Specified(f["time_range"]) => WithinTimeRange(r, f["time_range"])
    /\ Specified(f["congestion_range"]) => WithinCongestionRange(r, f["congestion_range"])

Keys == DOMAIN EmptyFilters

\* C14: filter_data returns exactly the rows that satisfy every given
\* constraint at once, in their order in the table; a constraint that is
\* absent, None, the empty text or the empty list removes no row, so a
\* configuration that gives no constraint returns all rows.
C14_FilterKeepsExactly ==
    qlast.made =>
        LET Keep(r) == Satisfies(r, qlast.filters)
        IN  /\ qlast.rows = SelectSeq(qorig, Keep)
            /\ (\A k \in Keys : ~Specified(qlast.filters[k])) => qlast.rows = qorig

\* Five constraints are given at once; one of two rows meets them all.
C14_Witness ==
    /\ qlast.made
    /\ Cardinality({k \in Keys : Specified(qlast.filters[k])}) = 5
    /\ Len(qorig) = 2
    /\ Len(qlast.rows) = 1

\* The configuration f without the constraint of key k
Without(f, k) == [f EXCEPT ![k] = Absent]

\* C15: with a time_range (start, end) of TIME_ORDER labels, filter_data
\* keeps, of the rows the other constraints leave, exactly those whose
\* time_slot has a position p in TIME_ORDER with
\* position(start) <= p <= position(end), both ends included; with
\* ('23:00', '00:30') a row of 23:30 or 00:00 is kept as far as the time is
\* concerned and a row of 05:30 is dropped.
C15_TimeRangeByPosition ==
    (qlast.made /\ Specified(qlast.filters["time_range"])) =>
        LET range == qlast.filters["time_range"]
            Keep(r) == WithinTimeRange(r, range)
            others == filter_data(qorig, Without(qlast.filters, "time_range"))
        IN  /\ qlast.rows = SelectSeq(others, Keep)
            /\ range = Pair(L_2300, L_0030) =>
                  \A i \in 1..Len(others) :
                      /\ others[i].time_slot \in {Str(L_2330), Str(L_0000)} =>
                            \E k \in 1..Len(qlast.rows) : qlast.rows[k] = others[i]
                      /\ others[i].time_slot = Str(L_0530) =>
                            \A k \in 1..Len(qlast.rows) : qlast.rows[k] # others[i]

\* ('23:00', '00:30') on a table with a row of 05:30 and a row of 00:00: the
\* row past midnight is the one returned.
C15_Witness ==
    /\ qlast.made
    /\ qlast.filters = [EmptyFilters EXCEPT !["time_range"] = Pair(L_2300, L_0030)]
    /\ Len(qorig) = 2
    /\ \E i \in 1..2 : qorig[i].time_slot = Str(L_0530)
    /\ Len(qlast.rows) = 1
    /\ qlast.rows[1].time_slot = Str(L_0000)

\* C16: with a congestion_range (min, max), filter_data keeps, of the rows
\* the other constraints leave, exactly those with min <= congestion <= max,
\* both bounds included, for every pair of bounds: min = max keeps the rows
\* with that very value, (0, 0) the rows with congestion 0.
C16_CongestionRangeInclusive ==
    (qlast.made /\ Specified(qlast.filters["congestion_range"])) =>
        LET range == qlast.filters["congestion_range"]
            Keep(r) == WithinCongestionRange(r, range)
            others == filter_data(qorig, Without(qlast.filters, "congestion_range"))
        IN  /\ qlast.rows = SelectSeq(others, Keep)
            /\ range.a = range.b =>
                  \A i \in 1..Len(others) :
                      others[i].congestion = Num(range.a) =>
                          \E k \in 1..Len(qlast.rows) : qlast.rows[k] = others[i]

\* (0, 0) on a table with a row of congestion 0 and a row of another value
C16_Witness ==
    /\ qlast.made
    /\ qlast.filters = [EmptyFilters EXCEPT !["congestion_range"] = Pair(0, 0)]
    /\ Len(qorig) = 2
    /\ Len(qlast.rows) = 1
    /\ qlast.rows[1].congestion = Num(0)

PresentValues(d, column) == {d[i][column] : i \in 1..Len(d)} \ {NaN}

Elements(vs) == {vs[i] : i \in 1..Len(vs)}

NoDuplicates(vs) == \A i, k \in 1..Len(vs) : i # k => vs[i] # vs[k]

\* A label that is a line number followed by '호선'
HasLineNumber(l) ==
    /\ Len(l) >= 3
    /\ SubSeq(l, Len(l) - 1, Len(l)) = <<"ho", "seon">>
    /\ \A i \in 1..(Len(l) - 2) : IsDigit(l[i])

LineNumber(l) == ParseInt(SubSeq(l, 1, Len(l) - 2))

\* The list holds each present value of the column once; line labels come
\* by their line number with the labels without one behind them, the values
\* of another column in ascending order.
OrderedUniqueValues(d, column, vals) ==
    /\ Elements(vals) = PresentValues(d, column)
    /\ NoDuplicates(vals)
    /\ column = "line" =>
          \A i, k \in 1..Len(vals) :
              i < k =>
                  /\ (HasLineNumber(vals[i].s) /\ HasLineNumber(vals[k].s)) =>
                        LineNumber(vals[i].s) < LineNumber(vals[k].s)
                  /\ ~(~HasLineNumber(vals[i].s) /\ HasLineNumber(vals[k].s))
    /\ column # "line" =>
          \A i, k \in 1..Len(vals) : i < k => ValueLess(vals[i], vals[k])

\* C18: get_unique_values(df, 'line') returns the distinct line labels
\* ordered by the number in the label, with every label that has no line
\* number behind all that have one, and never raises; for every other column
\* of the table it returns the distinct values in ascending (for text:
\* lexicographic) order.
C18_UniqueValuesOrdered ==
    (ucall.op = "get_unique_values" /\ ucall.arg.s[1] \in LongColumns) =>
        /\ ucall.res.ok
        /\ OrderedUniqueValues(udf, ucall.arg.s[1], ucall.res.vals)

\* What holds of get_unique_values: the list is as above whenever one is
\* returned, and the call raises exactly when a line label holds '호선' and
\* what is left without it is no number.
UniqueValuesOrderedOrRaised ==
    (ucall.op = "get_unique_values" /\ ucall.arg.s[1] \in LongColumns) =>
        /\ ucall.res.ok =>
              OrderedUniqueValues(udf, ucall.arg.s[1], ucall.res.vals)
        /\ ~ucall.res.ok <=>
              /\ ucall.arg.s[1] = "line"
              /\ \E l \in PresentValues(udf, "line") :
                    ContainsHoseon(l.s) /\ ~HasLineNumber(l.s)

\* The lines 10, 2 and 1 come back as 1, 2, 10.
UniqueValuesScenario ==
    /\ ucall.op = "get_unique_values"
    /\ ucall.arg.s[1] = "line"
    /\ ucall.res = ListResult(<<Str(LINE_1), Str(LINE_2), Str(LINE_10)>>)

\* The stations of the rows of the table whose line is the given one
StationsOfLine(d, line) ==
    {d[i].station : i \in {k \in 1..Len(d) : d[k].line = line}} \ {NaN}

Ascending(vs) == \A i, k \in 1..Len(vs) : i < k => ValueLess(vs[i], vs[k])

\* C19: get_stations_by_line(df, line) returns, in ascending order and
\* without duplicates, exactly the station names of the rows whose line
\* equals the given line; with line None it returns the distinct station
\* names of all rows.
C19_StationsOfLine ==
    ucall.op = "get_stations_by_line" =>
        /\ ucall.res.ok
        /\ Ascending(ucall.res.vals)
        /\ Elements(ucall.res.vals) =
              IF ucall.arg = None THEN PresentValues(udf, "station")
              ELSE StationsOfLine(udf, ucall.arg)

\* What holds of get_stations_by_line: as above for a line that is not the
\* empty text; the empty text is taken like None.
StationsOfLineUnlessEmpty ==
    ucall.op = "get_stations_by_line" =>
        /\ ucall.res.ok
        /\ Ascending(ucall.res.vals)
        /\ Elements(ucall.res.vals) =
              IF ucall.arg \in {None, Str(<<>>)} THEN PresentValues(udf, "station")
              ELSE StationsOfLine(udf, ucall.arg)

(***************************************************************************)
(* C20: station ids that spell no number                                   *)
(***************************************************************************)
\* A text cell with a character that is neither a digit nor the point
NoNumberText(x) ==
    /\ x.t = "str"
    /\ \E i \in 1..Len(x.s) : ~IsDigit(x.s[i]) /\ x.s[i] # "."

\* The input rows whose station id spells no number
UnparsedIdRows(t) ==
    IF HasCol(t, COL_STATION_ID)
    THEN {i \in 1..Len(t.rows) : NoNumberText(Cell(t, i, COL_STATION_ID))}
    ELSE {}

\* C20: a station id that cannot be parsed as a number raises nothing and
\* removes no data: clean_data keeps every input row and makes the station
\* id of such a row missing, melt_to_long fails only for a missing
\* identifying column, and the long table holds, for every time-slot cell of
\* such a row that holds a number, its observation row with station_id
\* missing.
C20_UnparsedStationIdKept ==
    stage \in {"clean", "long", "error"} =>
        /\ Len(df.rows) = Len(raw.rows)
        /\ \A i \in UnparsedIdRows(raw) : IsNaN(Cell(df, i, COL_STATION_ID))
        /\ stage = "error" => MissingIdCols(df) # {}
        /\ stage = "long" =>
              \A p \in NumberPairs(df) :
                  p[1] \in UnparsedIdRows(raw) =>
                      /\ IsNaN(PairRow(df, p).station_id)
                      /\ Count(long, PairRow(df, p)) >= 1

\* An input row with the station id "x" and a number in a time-slot column
\* has its observation row in the long table, without a station id.
C20_Witness ==
    /\ stage = "long"
    /\ \E p \in NumberPairs(df) :
          /\ p[1] \in UnparsedIdRows(raw)
          /\ Cell(raw, p[1], COL_STATION_ID) = Str(<<"x">>)
          /\ \E k \in 1..Len(long) :
                /\ long[k] = PairRow(df, p)
                /\ IsNaN(long[k].station_id)
                /\ long[k].station = Str(SEOUL)

(***************************************************************************)
(* C21: a page whose filters leave no row                                  *)
(***************************************************************************)
\* filter_data has returned in this run of the page (render_filters always
\* sets the two ranges)
FilterReturned ==
    pg \in FilterPages /\ ppc \in {"filtered", "done"} /\ pfilters # EmptyFilters

\* Aggregates without a value on a table without rows
UndefinedOnEmpty == {"mean", "max", "idxmax"}

\* C21: on app and on the pages 01 to 05, when filter_data returned no row
\* the run raises nothing, evaluates none of the aggregates that have no
\* value on an empty table, and ends with the 'no data' warning and without
\* offering a selector.
C21_EmptyResultWarns ==
    FilterReturned /\ pfiltered = <<>> =>
        /\ perr = "none"
        /\ pevals \cap UndefinedOnEmpty = {}
        /\ ppc = "done" => pshown = NO_DATA /\ popts = <<>>

\* The start page has ended with the warning: its table has rows, and the
\* user narrowed the congestion slider to a range none of them lies in.
C21_Witness ==
    /\ pg = "app"
    /\ ppc = "done"
    /\ Len(pdf) = MaxPageRows
    /\ pfilters # EmptyFilters
    /\ pfilters["congestion_range"] # Pair(0, Percent(200))
    /\ pfiltered = <<>>
    /\ pshown = NO_DATA
    /\ perr = "none"

(***************************************************************************)
(* C22: the table get_data returned, in the hands of a page                *)
(***************************************************************************)
\* C22: the table a page got from get_data stays as get_data returned it:
\* no column is added, no value changed and no row removed during the run
\* of any page.
C22_TableReadOnly == pg \in Pages => pdf = pgot

\* The part of C22 that holds: the pages that filter leave the table as
\* they got it, whatever the filters are.
TableReadOnlyOnFilterPages == pg \in FilterPages => pdf = pgot

\* Page 06 has written its column into a table with rows.
InspectedTableHasLevel ==
    /\ pg = "06" /\ ppc = "done" /\ pdf # <<>>
    /\ \A i \in 1..Len(pdf) : "congestion_level" \in DOMAIN pdf[i]

(***************************************************************************)
(* C23: the time-slot options of the pages                                 *)
(***************************************************************************)
\* The options are labels of TIME_ORDER, each before the next in TIME_ORDER
InTimeOrder(opts) ==
    /\ \A i \in 1..Len(opts) : opts[i].s \in TimeOrderLabels
    /\ \A i, j \in 1..Len(opts) :
          i < j => PositionInTimeOrder(opts[i].s) < PositionInTimeOrder(opts[j].s)

\* C23: every list of time-slot options a page offers follows TIME_ORDER:
\* 00:00 and 00:30 come after 23:30 and never before 05:30.
C23_TimeOptionsInTimeOrder == InTimeOrder(popts)

\* The part of C23 that holds: the selector of page 01, which walks through
\* TIME_ORDER, offers its labels in that order.
TimeOptionsInTimeOrderOnOverview == pg = "01" => InTimeOrder(popts)

\* A page other than 01 offers 00:00 ahead of 05:30.
MidnightOfferedFirst ==
    /\ pg \in {"02", "04", "05"} /\ ppc = "done"
    /\ Len(popts) = 2
    /\ popts[1] = Str(L_0000) /\ popts[2] = Str(L_0530)

(***************************************************************************)
(* C24: two sessions and one path that is not stored yet                   *)
(***************************************************************************)
\* C24 as stated: a call that had to wait for another session's run of the
\* body for the same path runs no stage of the pipeline itself and returns
\* a table, the one the other session loaded.
C24_LoadOnceForConcurrentCalls ==
    \A s \in ConcurrentSessions :
        waited[s] =>
            /\ trace[s] = <<>>
            /\ pc[s] = "done" => ret[s] = Returned(cache[path[s]].rows, TRUE)

\* C24, amended: the body of get_data runs in one session at a time for one
\* path; a stored result is never replaced, so one load at most populates a
\* key; a call that comes to the lock when a result is stored returns that
\* result and runs no stage; and every table a call returns is the one
\* stored for its path, so all callers for one path get the same dataset.
\* A run that raises stores nothing, and the call that waited for it then
\* runs the body itself.
C24_OneLoadAtATime ==
    [][/\ \A p \in Paths : Cardinality(Computing(p)') <= 1
       /\ \A p \in Paths : cache[p].stored => cache'[p] = cache[p]
       /\ \A s \in ConcurrentSessions :
             /\ pc[s] = "lock" /\ pc'[s] # "lock" /\ cache[path[s]].stored =>
                   /\ ret'[s] = Returned(cache[path[s]].rows, TRUE)
                   /\ pc'[s] = "done"
                   /\ trace'[s] = <<>>
             /\ pc'[s] = "done" /\ ret'[s].kind = "table" =>
                   cache'[path'[s]] = Entry(ret'[s].rows)]_vars

\* Session s2 called while s1 was loading the default path, waited, and
\* both have returned the same table: s1 from its run, s2 from the store.
C24_Witness ==
    /\ path["s1"] = DEFAULT_PATH /\ path["s2"] = DEFAULT_PATH
    /\ pc["s1"] = "done" /\ pc["s2"] = "done"
    /\ ~waited["s1"] /\ waited["s2"]
    /\ trace["s1"] = Stages /\ trace["s2"] = <<>>
    /\ ret["s1"].kind = "table" /\ ~ret["s1"].cached
    /\ ret["s2"] = Returned(ret["s1"].rows, TRUE)
    /\ ret["s1"].rows # <<>>

(***************************************************************************)
(* C25: the columns melt_to_long reads and the columns it returns          *)
(***************************************************************************)
\* The header holds the hour sign and the minute sign
HasBothSigns(h) ==
    /\ \E i \in 1..Len(h) : h[i] = "si"
    /\ \E i \in 1..Len(h) : h[i] = "bun"

\* The (input row, column) pairs with such a header and a number cell
SignedNumberPairs(t) ==
    {p \in (1..Len(t.rows)) \X (1..Len(t.cols)) :
        HasBothSigns(t.cols[p[2]]) /\ ExpectedNumber(t.rows[p[1]][p[2]]) >= 0}

\* C25: the rows melt_to_long returns have exactly the seven columns
\* day_type, line, station_id, station, direction, time_slot and congestion;
\* each of them comes from one input row and one column whose header holds
\* both the hour and the minute sign, matching the digit pattern or not,
\* with the five identifying cells under their new names; there are as
\* many rows as such columns have number cells, so no other column of the
\* input shows up in the output.
C25_SevenColumnsFromSignedHeaders ==
    stage = "long" =>
        /\ \A k \in 1..Len(long) : DOMAIN long[k] = LongColumns
        /\ Len(long) = Cardinality(SignedNumberPairs(df))
        /\ \A k \in 1..Len(long) :
              \E p \in SignedNumberPairs(df) : long[k] = PairRow(df, p)

\* The table has a column "sibun", which holds both signs and no digit,
\* and a column of totals "hapgye"; both hold a number in the first row,
\* and the one row returned is that of "sibun".
C25_Witness ==
    /\ stage = "long"
    /\ Len(df.rows) = 1
    /\ \E c, d \in 1..Len(df.cols) :
          /\ df.cols[c] = <<"si", "bun">>
          /\ df.cols[d] = <<"hap", "gye">>
          /\ ExpectedNumber(df.rows[1][c]) >= 0
          /\ ExpectedNumber(df.rows[1][d]) >= 0
          /\ Len(long) = 1
          /\ long[1].congestion = Num(ExpectedNumber(df.rows[1][c]))
          /\ long[1].congestion # Num(ExpectedNumber(df.rows[1][d]))

(***************************************************************************)
(* C26: what clean_data changes                                            *)
(***************************************************************************)
Blanks(s) == \A i \in 1..Len(s) : s[i] = " "

\* a is b without its leading and trailing blanks
IsTrimOf(a, b) ==
    /\ a # <<>> => a[1] # " " /\ a[Len(a)] # " "
    /\ \E i \in 0..Len(b) :
          /\ i + Len(a) <= Len(b)
          /\ Blanks(SubSeq(b, 1, i))
          /\ SubSeq(b, i + 1, i + Len(a)) = a
          /\ Blanks(SubSeq(b, i + Len(a) + 1, Len(b)))

TextColumns == {COL_DAY, COL_LINE, COL_STATION, COL_DIRECTION}

\* The headers of the cleaned table are those of the input without their
\* surrounding blanks, and every row is still there.
HeadersTrimmed ==
    /\ Len(df.cols) = Len(raw.cols)
    /\ \A c \in 1..Len(df.cols) : IsTrimOf(df.cols[c], raw.cols[c])
    /\ Len(df.rows) = Len(raw.rows)

\* C26: after clean_data every header and every value of the four text
\* columns is the one of the input without leading and trailing blanks:
\* a text is trimmed and nothing else about a value changes, so a missing
\* value stays missing.
C26_CleanOnlyTrims ==
    stage \in {"clean", "long", "error"} =>
        /\ HeadersTrimmed
        /\ \A i \in 1..Len(df.rows), c \in 1..Len(df.cols) :
              df.cols[c] \in TextColumns =>
                  IF raw.rows[i][c].t = "str"
                  THEN /\ df.rows[i][c].t = "str"
                       /\ IsTrimOf(df.rows[i][c].s, raw.rows[i][c].s)
                  ELSE df.rows[i][c] = raw.rows[i][c]

\* The part of C26 that holds: headers and the texts of the four columns
\* are trimmed and otherwise unchanged, " 23si30bun " is a time-slot column
\* afterwards, and the columns beside the four and the station id are as
\* in the input.
CleanTrimsTexts ==
    stage \in {"clean", "long", "error"} =>
        /\ HeadersTrimmed
        /\ \A c \in 1..Len(df.cols) :
              HasBothSigns(raw.cols[c]) => IsTimeCol(df.cols[c])
        /\ \A i \in 1..Len(df.rows), c \in 1..Len(df.cols) :
              /\ df.cols[c] \in TextColumns /\ raw.rows[i][c].t = "str" =>
                    /\ df.rows[i][c].t = "str"
                    /\ IsTrimOf(df.rows[i][c].s, raw.rows[i][c].s)
              /\ df.cols[c] \notin TextColumns \cup {COL_STATION_ID} =>
                    df.rows[i][c] = raw.rows[i][c]

\* A missing day type has become the text "nan".
MissingTextBecomesNan ==
    /\ stage = "clean"
    /\ \E i \in 1..Len(df.rows), c \in 1..Len(df.cols) :
          /\ df.cols[c] = COL_DAY
          /\ IsNaN(raw.rows[i][c])
          /\ df.rows[i][c] = Str(NAN_TEXT)

\* A header with surrounding blanks and a text with a trailing blank have
\* been trimmed.
TrimmedHeaderAndText ==
    /\ stage = "clean"
    /\ \E c \in 1..Len(df.cols) : raw.cols[c] # df.cols[c] /\ IsTimeCol(df.cols[c])
    /\ \E i \in 1..Len(df.rows), c \in 1..Len(df.cols) :
          /\ df.cols[c] = COL_STATION
          /\ raw.rows[i][c] = Str(YEOKSAM \o <<" ">>)
          /\ df.rows[i][c] = Str(YEOKSAM)

(***************************************************************************)
(* C27: filter_data only removes rows                                      *)
(***************************************************************************)
\* a is b with some rows left out: the rows of a are rows of b, unchanged
\* and in the order they have in b
IsSubsequence(a, b) ==
    \E f \in [1..Len(a) -> 1..Len(b)] :
        /\ \A i \in 1..Len(a) : a[i] = b[f[i]]
        /\ \A i, j \in 1..Len(a) : i < j => f[i] < f[j]

\* Ascending by (line, station, direction, time_slot)
SortedByKey4(rows) ==
    \A i \in 1..(Len(rows) - 1) : KeyAscending(rows[i], rows[i + 1])

\* C27: the table filter_data returns is a subsequence of the rows of its
\* input, each row with every value unchanged; when the input is ascending
\* by (line, station, direction, time_slot) the result is too; and
\* filter_data with the same configuration on the result returns the
\* result again.
C27_FilterOnlyRemoves ==
    qlast.made =>
        /\ IsSubsequence(qlast.rows, qorig)
        /\ SortedByKey4(qorig) => SortedByKey4(qlast.rows)
        /\ filter_data(qlast.rows, qlast.filters) = qlast.rows

\* A sorted table of two distinct rows lost its first row to a
\* configuration that gives several constraints.
C27_Witness ==
    /\ qlast.made
    /\ Len(qorig) = 2
    /\ qorig[1] # qorig[2]
    /\ SortedByKey4(qorig)
    /\ qlast.rows = <<qorig[2]>>
    /\ Cardinality({k \in Keys : Specified(qlast.filters[k])}) >= 2

(***************************************************************************)
(* C28: a call of get_data that fails                                      *)
(***************************************************************************)
\* C28: a call that ends with an exception leaves the store as it was;
\* only a run that went through the three stages writes to the store; a
\* call that returns without running the body returns a stored table and
\* never an exception; and the call that follows a failed one for the same
\* path starts the body again with the existence check, as long as nothing
\* is stored for the path.
C28_FailureNotStored ==
    [][\A s \in Sessions :
          /\ pc[s] # "done" /\ pc'[s] = "done" /\ ret'[s].kind = "error" =>
                cache' = cache
          /\ \A p \in Paths :
                cache'[p] # cache[p] =>
                    /\ pc[s] = "store" /\ path[s] = p
                    /\ ret[s].kind = "table" /\ trace[s] = Stages
                    /\ cache'[p] = Entry(ret[s].rows)
          /\ BeginsCall(s) /\ pc'[s] = "done" =>
                /\ cache[path'[s]].stored
                /\ ret'[s] = Returned(cache[path'[s]].rows, TRUE)
          /\ BeginsCall(s) /\ ret[s].kind = "error" /\ path'[s] = path[s]
                /\ ~cache[path[s]].stored =>
                /\ pc'[s] = "check"
                /\ ret'[s] = NoResult
                /\ existed'[s] = "unknown"
                /\ trace'[s] = <<>>]_vars

\* A call for the default path failed, the cause was removed, and a later
\* call for the same path ran the check and the three stages and stored
\* its table.
C28_Witness ==
    /\ DEFAULT_PATH \in failed
    /\ pc["s1"] = "done"
    /\ path["s1"] = DEFAULT_PATH
    /\ existed["s1"] = "yes"
    /\ trace["s1"] = Stages
    /\ ret["s1"].kind = "table" /\ ~ret["s1"].cached
    /\ cache[DEFAULT_PATH] = Entry(ret["s1"].rows)

(***************************************************************************)
(* C29: the sidebar nobody touched                                         *)
(***************************************************************************)
\* This run of the page has the filters of the untouched sidebar.
UntouchedRun ==
    /\ FilterReturned
    /\ pfilters = render_filters(pdf, DefaultSelection(pdf)).filters

\* time_slot is a label and congestion lies in [0, 200]
LabelledUpTo200(r) ==
    /\ r.time_slot.t = "str" /\ r.time_slot.s \in TimeOrderLabels
    /\ r.congestion.t = "num"
    /\ 0 <= r.congestion.v /\ r.congestion.v <= 2000

\* The configuration with nothing but the two ranges of the run
RangesOnly ==
    [EmptyFilters EXCEPT !["time_range"] = pfilters["time_range"],
                         !["congestion_range"] = pfilters["congestion_range"]]

\* The configuration of the run without the two ranges
WithoutRanges ==
    [pfilters EXCEPT !["time_range"] = Absent, !["congestion_range"] = Absent]

\* C29: with the sidebar untouched render_filters returns the time range
\* from the first to the last label of TIME_ORDER (05:30 to 00:30) and the
\* congestion range (0, 200); filter_data with these two ranges keeps
\* exactly the rows with a label as time_slot and a congestion in [0, 200],
\* alone and together with the other defaults, so a row above 200 is
\* removed without the user asking for it.
C29_DefaultRanges ==
    UntouchedRun =>
        /\ pfilters["time_range"] = Pair(TIME_ORDER[1], TIME_ORDER[39])
        /\ pfilters["time_range"] = Pair(L_0530, L_0030)
        /\ pfilters["congestion_range"] = Pair(0, 2000)
        /\ filter_data(pdf, RangesOnly) = SelectSeq(pdf, LabelledUpTo200)
        /\ pfiltered = SelectSeq(filter_data(pdf, WithoutRanges), LabelledUpTo200)
        /\ \A i \in 1..Len(pfiltered) : pfiltered[i].congestion.v <= 2000

\* On an untouched page a row at 200.1 has gone and a row at 45.2 is still
\* there, both of the day type and of a line the defaults select.
C29_Witness ==
    /\ UntouchedRun
    /\ Len(pdf) = 2
    /\ Len(pfiltered) = 1
    /\ pfiltered[1].congestion = Num(452)
    /\ \E i \in 1..Len(pdf) :
          /\ pdf[i].congestion = Num(2001)
          /\ pdf[i].day_type = pfilters["day_type"]
          /\ IsIn(pdf[i].line, pfilters["lines"])
          /\ IsIn(pdf[i].direction, pfilters["directions"])
          /\ pdf[i].time_slot.t = "str"

(***************************************************************************)
(* C30: one row per key                                                    *)
(***************************************************************************)
\* The identifying cells of row i of the table given to melt_to_long
IdCells(t, i) == [k \in 1..Len(id_cols) |-> Cell(t, i, id_cols[k])]

DistinctIds(t) ==
    \A i, j \in 1..Len(t.rows) : i # j => IdCells(t, i) # IdCells(t, j)

\* The time-slot headers normalise to pairwise distinct labels.
DistinctLabels(t) ==
    \A c, d \in TimeColIndexes(t) :
        c # d => format_time_column(t.cols[c]) # format_time_column(t.cols[d])

\* The key of a row of the long table
LongKey(r) ==
    <<r.day_type, r.line, r.station_id, r.station, r.direction, r.time_slot>>

OneRowPerKey(rows) ==
    \A k, l \in 1..Len(rows) : k # l => LongKey(rows[k]) # LongKey(rows[l])

\* Two time-slot columns with the same label and an input row that holds a
\* number in both give two rows with the same key, each with its number.
SameLabelGivesTwoRows ==
    \A c, d \in TimeColIndexes(df), i \in 1..Len(df.rows) :
        /\ c # d
        /\ format_time_column(df.cols[c]) = format_time_column(df.cols[d])
        /\ <<i, c>> \in NumberPairs(df) /\ <<i, d>> \in NumberPairs(df)
        => \E k, l \in 1..Len(long) :
              /\ k # l
              /\ long[k] = PairRow(df, <<i, c>>)
              /\ long[l] = PairRow(df, <<i, d>>)
              /\ LongKey(long[k]) = LongKey(long[l])

\* C30: when the rows given to melt_to_long have pairwise distinct
\* identifying cells and the time-slot headers normalise to pairwise
\* distinct labels, the long table has at most one row for each (day_type,
\* line, station_id, station, direction, time_slot); two headers with the
\* same label give two rows with the same key, neither merged nor rejected.
C30_OneRowPerKey ==
    stage = "long" =>
        /\ DistinctIds(df) /\ DistinctLabels(df) => OneRowPerKey(long)
        /\ SameLabelGivesTwoRows

\* The time-slot headers give pairwise distinct values of the time_slot
\* column: labels of TIME_ORDER, or at most one missing value.
DistinctSlots(t) ==
    \A c, d \in TimeColIndexes(t) :
        c # d => ToCategorical(Str(format_time_column(t.cols[c])))
                    # ToCategorical(Str(format_time_column(t.cols[d])))

\* The part of C30 that holds: the same, for headers that give pairwise
\* distinct values of the time_slot column.
OneRowPerKeyForDistinctSlots ==
    stage = "long" =>
        /\ DistinctIds(df) /\ DistinctSlots(df) => OneRowPerKey(long)
        /\ SameLabelGivesTwoRows

\* "5si30bun" and "05si30bun" have given two rows with the key of 05:30.
TwoRowsForOneLabel ==
    /\ stage = "long"
    /\ Len(df.rows) = 1
    /\ \E c, d \in TimeColIndexes(df) :
          /\ df.cols[c] = <<"5", "si", "3", "0", "bun">>
          /\ df.cols[d] = <<"0", "5", "si", "3", "0", "bun">>
    /\ Len(long) = 2
    /\ long[1].time_slot = Str(L_0530) /\ long[2].time_slot = Str(L_0530)
    /\ long[1].congestion # long[2].congestion

\* "5si15bun" and "sibun" have distinct labels, neither on TIME_ORDER, and
\* have given two rows with the same key and a missing time_slot.
TwoRowsWithoutSlot ==
    /\ stage = "long"
    /\ DistinctIds(df) /\ DistinctLabels(df)
    /\ Len(long) = 2
    /\ IsNaN(long[1].time_slot) /\ IsNaN(long[2].time_slot)
    /\ LongKey(long[1]) = LongKey(long[2])

====
